---- MODULE Spec2Model ----
(***************************************************************************)
(* Lesson-Visuals-AI: the lesson-to-slides assembler (server/routes.ts)    *)
(* and the voiceover script generator (server/scriptGenerator.ts).         *)
(*                                                                         *)
(* A JavaScript string is a sequence of one-character strings; the bullet  *)
(* is the atom "U+2022" and the rocket emoji the two UTF-16 units          *)
(* "U+D83D","U+DE80".  A JavaScript object is a record and an absent       *)
(* (undefined) property is a field the record does not have.  A number of  *)
(* seconds is an IEEE-754 double, kept as the nearby multiple of 0.1 and    *)
(* its exact distance from it (see the section on doubles).                *)
(***************************************************************************)
EXTENDS Integers, Sequences, FiniteSets, TLC

VARIABLES
    engine,     \* the server build serving the routes: "routes" or "part_003"
    body,       \* the JSON body the client posts to /api/lesson-to-slides
    rng,        \* state of the identifier generator (see generateId)
    rngCalls,   \* number of generateId() calls made so far
    retries,    \* how many times the client posts the same lesson again
    responses,  \* responses of /api/lesson-to-slides, in the order sent
    scriptReq,  \* the JSON body the client posts to /api/generate-script
    scriptRes,  \* responses of /api/generate-script, in the order sent
    enhance,    \* one /api/enhance-script request and its enhanceScriptWithAI call
    batch,      \* one run of the client's generateImages
    imageReq,   \* one /api/generate-slide-image request
    page,       \* the reel page: step, lesson, reel, lessonContext, currentSlideIndex, flags
    uploads     \* the handleFileUpload calls of the reel page, in the order started

vars == <<engine, body, rng, rngCalls, retries, responses, scriptReq, scriptRes,
          enhance, batch, imageReq, page, uploads>>

slideVars == <<engine, body, rng, rngCalls, retries, responses>>
scriptVars == <<scriptReq, scriptRes>>
restVars == <<enhance, batch, imageReq, page, uploads>>
clientVars == <<page, uploads>>

\* a request that was not made, a run that was not started
Idle == [phase |-> "idle"]

\* null, as a state of the page holds it
Null == [null |-> TRUE]

\* the reel page as mounted: the initial values of its useState calls
FreshPage ==
    [step |-> "upload", lesson |-> Null, reel |-> Null, lessonContext |-> <<>>,
     currentSlideIndex |-> 0, isLoading |-> FALSE, isGenerating |-> FALSE]

----------------------------------------------------------------------------
(* Bounds *)

MaxSections == 2
MaxRetries == 1
MaxRng == 2
MaxReelSlides == 2
MaxTimedSlides == 3
MaxScriptLines == 2
MaxPrompts == 3
MaxPolls == 3
MaxUploads == 2

----------------------------------------------------------------------------
(* JavaScript strings and arrays *)

Min(a, b) == IF a < b THEN a ELSE b
Max(a, b) == IF a > b THEN a ELSE b

Has(obj, f) == f \in DOMAIN obj

\* {n: obj[f]} when obj has f, else {} (JSON drops undefined properties)
Opt(obj, f, n) == IF f \in DOMAIN obj THEN (n :> obj[f]) ELSE <<>>

Whitespace == {" ", "\n", "\t", "\r"}

UpperChars == <<"A","B","C","D","E","F","G","H","I","J","K","L","M","N","O","P","Q","R","S","T","U","V","W","X","Y","Z">>
LowerChars == <<"a","b","c","d","e","f","g","h","i","j","k","l","m","n","o","p","q","r","s","t","u","v","w","x","y","z">>

toLowerCase(s) ==
    [i \in 1..Len(s) |->
        IF \E k \in 1..26 : UpperChars[k] = s[i]
        THEN LowerChars[CHOOSE k \in 1..26 : UpperChars[k] = s[i]]
        ELSE s[i]]

includes(s, kw) ==
    \E i \in 1..(Len(s) - Len(kw) + 1) : \A j \in 1..Len(kw) : s[i + j - 1] = kw[j]

\* s.substring(0, n)
substring(s, n) == SubSeq(s, 1, Min(n, Len(s)))

\* a.slice(0, n)
slice(a, n) == SubSeq(a, 1, Min(n, Len(a)))

RECURSIVE join(_, _)
join(a, sep) ==
    IF Len(a) = 0 THEN <<>>
    ELSE IF Len(a) = 1 THEN a[1]
    ELSE a[1] \o sep \o join(Tail(a), sep)

\* s.split(d) for a one-character separator class: every separator splits
RECURSIVE split(_, _)
split(s, delims) ==
    IF \A i \in 1..Len(s) : s[i] \notin delims THEN <<s>>
    ELSE LET k == CHOOSE i \in 1..Len(s) :
                    /\ s[i] \in delims
                    /\ \A j \in 1..(i - 1) : s[j] \notin delims
         IN <<SubSeq(s, 1, k - 1)>> \o split(SubSeq(s, k + 1, Len(s)), delims)

\* s.split(/\s+/): a maximal run of whitespace is one separator
RECURSIVE splitRuns(_)
splitRuns(s) ==
    IF \A i \in 1..Len(s) : s[i] \notin Whitespace THEN <<s>>
    ELSE LET k == CHOOSE i \in 1..Len(s) :
                    /\ s[i] \in Whitespace
                    /\ \A j \in 1..(i - 1) : s[j] \notin Whitespace
             m == CHOOSE i \in k..Len(s) :
                    /\ \A j \in k..i : s[j] \in Whitespace
                    /\ (i = Len(s) \/ s[i + 1] \notin Whitespace)
         IN <<SubSeq(s, 1, k - 1)>> \o splitRuns(SubSeq(s, m + 1, Len(s)))

trim(s) ==
    IF \A i \in 1..Len(s) : s[i] \in Whitespace THEN <<>>
    ELSE LET a == CHOOSE i \in 1..Len(s) :
                    s[i] \notin Whitespace /\ \A j \in 1..(i - 1) : s[j] \in Whitespace
             b == CHOOSE i \in 1..Len(s) :
                    s[i] \notin Whitespace /\ \A j \in (i + 1)..Len(s) : s[j] \in Whitespace
         IN SubSeq(s, a, b)

\* `${v}` of a property that may be undefined
Template(obj, f) == IF f \in DOMAIN obj THEN obj[f] ELSE <<"u","n","d","e","f","i","n","e","d">>

\* JSON.stringify of a string, of a string array and of a question object
\* whose keys were inserted in the order question, options, answer
jsonString(s) ==
    LET esc(c) == IF c = "\"" THEN <<"\\","\"">> ELSE IF c = "\\" THEN <<"\\","\\">>
                  ELSE IF c = "\n" THEN <<"\\","n">> ELSE <<c>>
    IN <<"\"">> \o join([i \in 1..Len(s) |-> esc(s[i])], <<>>) \o <<"\"">>

jsonArray(a) == <<"[">> \o join([i \in 1..Len(a) |-> jsonString(a[i])], <<",">>) \o <<"]">>

JSONstringify(o) ==
    LET q == IF Has(o, "question") THEN <<<<"\"","q","u","e","s","t","i","o","n","\"",":">> \o jsonString(o.question)>> ELSE <<>>
        p == IF Has(o, "options") THEN <<<<"\"","o","p","t","i","o","n","s","\"",":">> \o jsonArray(o.options)>> ELSE <<>>
        a == IF Has(o, "answer") THEN <<<<"\"","a","n","s","w","e","r","\"",":">> \o jsonString(o.answer)>> ELSE <<>>
    IN <<"{">> \o join(q \o p \o a, <<",">>) \o <<"}">>

----------------------------------------------------------------------------
(* Lessons the client may upload *)

Word(term, pos, def, ex) ==
    [term |-> term, partOfSpeech |-> pos, definition |-> def, example |-> ex]

wordApple ==
    Word(<<"a","p","p","l","e">>, <<"n","o","u","n">>, <<"a"," ","r","o","u","n","d"," ","f","r","u","i","t">>, <<"I"," ","e","a","t"," ","a","n"," ","a","p","p","l","e",".">>)
    @@ [pronunciation |-> [syllables |-> <<<<"a","p">>, <<"p","l","e">>>>, stressIndex |-> 0,
                           phoneticGuide |-> <<"A","P","-","u","h","l">>],
        imagePrompt |-> <<"a"," ","r","e","d"," ","a","p","p","l","e">>]

foodWords ==
    << Word(<<"b","r","e","a","d">>, <<"n","o","u","n">>, <<"b","a","k","e","d"," ","f","o","o","d">>, <<"I"," ","l","i","k","e"," ","b","r","e","a","d",".">>),
       Word(<<"r","i","c","e">>, <<"n","o","u","n">>, <<"w","h","i","t","e"," ","g","r","a","i","n","s">>, <<"W","e"," ","e","a","t"," ","r","i","c","e",".">>),
       Word(<<"m","i","l","k">>, <<"n","o","u","n">>, <<"a"," ","w","h","i","t","e"," ","d","r","i","n","k">>, <<"M","i","l","k"," ","i","s"," ","c","o","l","d",".">>),
       Word(<<"c","o","o","k">>, <<"v","e","r","b">>, <<"t","o"," ","m","a","k","e"," ","f","o","o","d">>, <<"I"," ","c","o","o","k"," ","s","o","u","p",".">>) >>

StrQ(s) == [t |-> "string", s |-> s]
ObjQ(o) == [t |-> "object", o |-> o]

sevenQuestions ==
    << StrQ(<<"Q","1","?">>), StrQ(<<"Q","2","?">>), StrQ(<<"Q","3","?">>), StrQ(<<"Q","4","?">>),
       StrQ(<<"Q","5","?">>), StrQ(<<"Q","6","?">>), StrQ(<<"Q","7","?">>) >>

mixedQuestions ==
    << ObjQ([question |-> <<"I","s"," ","i","t"," ","r","e","d","?">>, options |-> <<<<"y","e","s">>, <<"n","o">>>>, answer |-> <<"y","e","s">>]),
       ObjQ([options |-> <<<<"a"," ","\"","b","\"">>>>]),
       StrQ(<<"W","h","y","?">>),
       [t |-> "null"] >>

Sec(type, title) == [type |-> type, title |-> title]

\* sections that carry optional fields
RichSections ==
    { Sec(<<"o","b","j","e","c","t","i","v","e","s">>, <<"L","e","s","s","o","n"," ","O","b","j","e","c","t","i","v","e","s">>) @@
        [content |-> <<"L","e","a","r","n"," ","g","r","e","e","t","i","n","g","s","\n","-"," ","P","r","a","c","t","i","c","e"," ","i","n","t","r","o","d","u","c","t","i","o","n","s","\n","U+2022"," ","T","o","o"," ","s","h","o","r","t","\n","A","s","k"," ","s","i","m","p","l","e"," ","q","u","e","s","t","i","o","n","s","\n","D","e","s","c","r","i","b","e"," ","y","o","u","r"," ","f","a","m","i","l","y","\n","T","a","l","k"," ","a","b","o","u","t"," ","h","o","b","b","i","e","s">>],
      Sec(<<"V","o","c","a","b","u","l","a","r","y">>, <<"F","o","o","d">>) @@ [words |-> foodWords],
      Sec(<<"l","e","x","i","s">>, <<"K","e","y"," ","W","o","r","d","s">>) @@ [words |-> <<wordApple>>],
      Sec(<<"v","o","c","a","b","u","l","a","r","y">>, <<"W","o","r","d","s">>) @@ [words |-> <<>>],
      Sec(<<"g","r","a","m","m","a","r">>, <<"P","r","e","s","e","n","t"," ","S","i","m","p","l","e">>) @@
        [content |-> <<"U","s","e"," ","i","t"," ","f","o","r"," ","h","a","b","i","t","s",".">>,
         paragraphs |-> <<<<"I"," ","e","a","t",".">>, <<"Y","o","u"," ","e","a","t",".">>, <<"H","e"," ","e","a","t","s",".">>>>],
      Sec(<<"r","e","a","d","i","n","g">>, <<"R","e","a","d","i","n","g"," ","A","s","s","e","s","s","m","e","n","t">>) @@
        [paragraphs |-> <<<<"T","o","m"," ","e","a","t","s"," ","r","i","c","e",".">>, <<"H","e"," ","i","s"," ","f","u","l","l",".">>>>, content |-> <<"u","n","u","s","e","d">>],
      Sec(<<"d","i","a","l","o","g","u","e">>, <<"A","t"," ","t","h","e"," ","c","a","f","e">>) @@
        [content |-> <<"A",":"," ","T","e","a","?"," ","B",":"," ","Y","e","s",".">>, targetVocabulary |-> <<<<"t","e","a">>, <<"c","a","f","e">>>>],
      Sec(<<"a","c","t","i","v","i","t","y">>, <<"P","a","i","r"," ","w","o","r","k">>) @@ [procedure |-> <<"A","s","k"," ","a"," ","p","a","r","t","n","e","r",".">>, content |-> <<"T","a","l","k",".">>],
      Sec(<<"q","u","i","z">>, <<"Q","u","i","z">>) @@ [questions |-> sevenQuestions],
      Sec(<<"c","o","m","p","r","e","h","e","n","s","i","o","n">>, <<"C","h","e","c","k">>) @@ [questions |-> mixedQuestions],
      Sec(<<"w","r","a","p","-","u","p">>, <<"R","e","v","i","e","w">>) @@ [content |-> <<"T","o","d","a","y"," ","w","e"," ","l","e","a","r","n","e","d"," ","f","o","o","d"," ","w","o","r","d","s",".">>],
      Sec(<<"w","a","r","m","-","u","p">>, <<"I","n","t","r","o","d","u","c","t","i","o","n">>) @@ [content |-> <<"T","a","l","k"," ","a","b","o","u","t"," ","f","o","o","d",".">>],
      Sec(<<"n","o","t","e","s">>, <<"C","u","l","t","u","r","e">>) @@ [content |-> <<"T","e","a"," ","t","i","m","e",".">>],
      Sec(<<"t","i","t","l","e">>, <<"H","o","o","k"," ","a","n","d"," ","O","u","t","r","o">>) @@ [content |-> <<"T","i","t","l","e",","," ","h","o","o","k",","," ","o","u","t","r","o",".">>],
      Sec(<<"r","e","a","d","i","n","g">>, <<"R","e","a","d","i","n","g"," ","T","e","x","t",":"," "," ","L","u","n","c","h">>) @@ [content |-> <<"T","o","m"," ","e","a","t","s"," ","r","i","c","e"," ","a","t"," ","n","o","o","n",".">>] }

\* sections with a type and a title and none of the optional fields, one per
\* category classifySection can return for such a section
BareSections ==
    { Sec(<<"o","b","j","e","c","t","i","v","e","s">>, <<"G","o","a","l","s">>), Sec(<<"v","o","c","a","b","u","l","a","r","y">>, <<"W","o","r","d","s">>),
      Sec(<<"g","r","a","m","m","a","r">>, <<"R","u","l","e","s">>), Sec(<<"r","e","a","d","i","n","g">>, <<"S","t","o","r","y">>),
      Sec(<<"e","x","a","m","p","l","e">>, <<"M","o","d","e","l">>), Sec(<<"p","r","a","c","t","i","c","e">>, <<"D","r","i","l","l">>),
      Sec(<<"q","u","i","z">>, <<"Q","u","i","z">>), Sec(<<"s","u","m","m","a","r","y">>, <<"R","e","c","a","p">>),
      Sec(<<"w","a","r","m","-","u","p">>, <<"S","t","a","r","t">>), Sec(<<"m","i","s","c">>, <<"E","x","t","r","a">>) }

\* sections whose optional fields are present and empty
EmptySections ==
    { Sec(<<"n","o","t","e","s">>, <<"B","l","a","n","k">>) @@ [paragraphs |-> <<>>, content |-> <<>>],
      Sec(<<"q","u","i","z">>, <<"B","l","a","n","k">>) @@ [questions |-> <<>>] }

\* sections that violate the lesson schema: no type, no title
MalformedSections == { [title |-> <<"U","n","t","i","t","l","e","d">>], [type |-> <<"r","e","a","d","i","n","g">>] }

SectionCatalog == RichSections \cup BareSections \cup EmptySections \cup MalformedSections

SectionLists == UNION { [1..n -> SectionCatalog] : n \in 0..MaxSections }

FullLesson(sections) ==
    [id |-> 7, title |-> <<"F","o","o","d"," ","V","o","c","a","b","u","l","a","r","y">>, topic |-> <<"F","o","o","d">>, cefrLevel |-> <<"A","2">>,
     content |-> [title |-> <<"F","o","o","d"," ","V","o","c","a","b","u","l","a","r","y">>, level |-> <<"A","2">>, focus |-> <<"E","a","t","i","n","g">>,
                  sections |-> sections]]

\* only what the route checks for: a title and content.sections
MinimalLesson(sections) ==
    [title |-> <<"T">>, content |-> [sections |-> sections]]

Lessons ==
    { FullLesson(ss) : ss \in SectionLists }
    \cup { MinimalLesson(ss) : ss \in { x \in SectionLists : Len(x) <= 1 } }

\* lessons the route rejects
InvalidLessons ==
    { [id |-> 7, topic |-> <<"F","o","o","d">>, content |-> [sections |-> <<>>]],
      [id |-> 7, title |-> <<>>, content |-> [sections |-> <<>>]],
      [id |-> 7, title |-> <<"T">>],
      [id |-> 7, title |-> <<"T">>, content |-> [title |-> <<"T">>]] }

\* a JSON body with neither a lesson nor a reel
EmptyBody == [unrelated |-> TRUE]

Bodies ==
    { [lesson |-> l] : l \in Lessons \cup InvalidLessons } \cup { EmptyBody }

----------------------------------------------------------------------------
(* server/routes.ts: the slide assembler *)

TypeError == "TypeError"

\* Math.random().toString(36).substring(2, 9): nothing makes two draws differ.
\* The n-th draw of the generator in state rng: rng = 0 is a run of the
\* generator whose draws are pairwise distinct, rng = p > 0 one whose draws
\* repeat with period p.
generateId(n) == IF rng = 0 THEN n ELSE n % rng

\* keywordCategory with the quiz rule tested before the reading rule
keywordCategoryQuizFirst(section, combined) ==
    IF includes(combined, <<"o","b","j","e","c","t","i","v","e">>) \/ includes(combined, <<"l","e","a","r","n","i","n","g"," ","g","o","a","l">>) THEN "objectives"
    ELSE IF includes(combined, <<"v","o","c","a","b","u","l","a","r","y">>) \/ includes(combined, <<"k","e","y"," ","w","o","r","d","s">>) THEN "vocabulary"
    ELSE IF includes(combined, <<"g","r","a","m","m","a","r">>) \/ includes(combined, <<"l","a","n","g","u","a","g","e"," ","f","o","c","u","s">>) \/ includes(combined, <<"s","t","r","u","c","t","u","r","e">>) THEN "grammar"
    ELSE IF includes(combined, <<"q","u","i","z">>) \/ includes(combined, <<"a","s","s","e","s","s","m","e","n","t">>) \/ includes(combined, <<"c","h","e","c","k">>) \/ includes(combined, <<"t","e","s","t">>) THEN "quiz"
    ELSE IF includes(combined, <<"r","e","a","d","i","n","g">>) \/ includes(combined, <<"p","a","s","s","a","g","e">>) \/ includes(combined, <<"t","e","x","t">>) THEN "reading"
    ELSE IF includes(combined, <<"e","x","a","m","p","l","e">>) \/ includes(combined, <<"d","i","a","l","o","g","u","e">>) \/ includes(combined, <<"c","o","n","v","e","r","s","a","t","i","o","n">>) \/ includes(combined, <<"s","a","m","p","l","e">>) THEN "example"
    ELSE IF includes(combined, <<"a","c","t","i","v","i","t","y">>) \/ includes(combined, <<"p","r","a","c","t","i","c","e">>) \/ includes(combined, <<"e","x","e","r","c","i","s","e">>) \/ includes(combined, <<"t","a","s","k">>) THEN "activity"
    ELSE IF includes(combined, <<"s","u","m","m","a","r","y">>) \/ includes(combined, <<"r","e","v","i","e","w">>) \/ includes(combined, <<"w","r","a","p">>) THEN "summary"
    ELSE IF includes(combined, <<"i","n","t","r","o","d","u","c","t","i","o","n">>) \/ includes(combined, <<"w","a","r","m">>) THEN "intro"
    ELSE IF (Has(section, "content") /\ section.content # <<>>) \/ Has(section, "paragraphs") THEN "content"
    ELSE "other"

\* lines 257-269: the first keyword group the combined text matches
keywordCategory(section, combined) ==
    IF includes(combined, <<"o","b","j","e","c","t","i","v","e">>) \/ includes(combined, <<"l","e","a","r","n","i","n","g"," ","g","o","a","l">>) THEN "objectives"
    ELSE IF includes(combined, <<"v","o","c","a","b","u","l","a","r","y">>) \/ includes(combined, <<"k","e","y"," ","w","o","r","d","s">>) THEN "vocabulary"
    ELSE IF includes(combined, <<"g","r","a","m","m","a","r">>) \/ includes(combined, <<"l","a","n","g","u","a","g","e"," ","f","o","c","u","s">>) \/ includes(combined, <<"s","t","r","u","c","t","u","r","e">>) THEN "grammar"
    ELSE IF includes(combined, <<"r","e","a","d","i","n","g">>) \/ includes(combined, <<"p","a","s","s","a","g","e">>) \/ includes(combined, <<"t","e","x","t">>) THEN "reading"
    ELSE IF includes(combined, <<"e","x","a","m","p","l","e">>) \/ includes(combined, <<"d","i","a","l","o","g","u","e">>) \/ includes(combined, <<"c","o","n","v","e","r","s","a","t","i","o","n">>) \/ includes(combined, <<"s","a","m","p","l","e">>) THEN "example"
    ELSE IF includes(combined, <<"a","c","t","i","v","i","t","y">>) \/ includes(combined, <<"p","r","a","c","t","i","c","e">>) \/ includes(combined, <<"e","x","e","r","c","i","s","e">>) \/ includes(combined, <<"t","a","s","k">>) THEN "activity"
    ELSE IF includes(combined, <<"q","u","i","z">>) \/ includes(combined, <<"a","s","s","e","s","s","m","e","n","t">>) \/ includes(combined, <<"c","h","e","c","k">>) \/ includes(combined, <<"t","e","s","t">>) THEN "quiz"
    ELSE IF includes(combined, <<"s","u","m","m","a","r","y">>) \/ includes(combined, <<"r","e","v","i","e","w">>) \/ includes(combined, <<"w","r","a","p">>) THEN "summary"
    ELSE IF includes(combined, <<"i","n","t","r","o","d","u","c","t","i","o","n">>) \/ includes(combined, <<"w","a","r","m">>) THEN "intro"
    ELSE IF (Has(section, "content") /\ section.content # <<>>) \/ Has(section, "paragraphs") THEN "content"
    ELSE "other"

\* section.type.toLowerCase() raises a TypeError on an undefined property
classifySection(section) ==
    IF ~Has(section, "type") \/ ~Has(section, "title") THEN TypeError
    ELSE keywordCategory(section,
            toLowerCase(section.type) \o <<" ">> \o toLowerCase(section.title))

\* classifySection tabulated over the catalog (it is pure; the table only
\* saves evaluating the keyword search again for the same section)
categoryOf == [section \in SectionCatalog |-> classifySection(section)]

\* pushSlide with the sequence taken from a counter that outlives the call
pushSlideSharedCounter(st, type, requiresImage, payload) ==
    [st EXCEPT
        !.slides = Append(@, [id |-> generateId(st.calls + 1), type |-> type,
                              sequence |-> st.calls,
                              requiresImage |-> requiresImage] @@ payload),
        !.sequence = @ + 1,
        !.calls = @ + 1]

\* slides.push({id: generateId(), type, sequence: sequence++, requiresImage, ...payload})
pushSlide(st, type, requiresImage, payload) ==
    [st EXCEPT
        !.slides = Append(@, [id |-> generateId(st.calls + 1), type |-> type,
                              sequence |-> st.sequence,
                              requiresImage |-> requiresImage] @@ payload),
        !.sequence = @ + 1,
        !.calls = @ + 1]

\* joinedContent with a placeholder in place of the empty string
joinedContentPlaceholder(section) ==
    LET p == IF Has(section, "paragraphs") THEN join(section.paragraphs, <<" ">>) ELSE <<>>
    IN  IF p # <<>> THEN p
        ELSE IF Has(section, "content") /\ section.content # <<>> THEN section.content
        ELSE <<"N","o"," ","c","o","n","t","e","n","t"," ","a","v","a","i","l","a","b","l","e",".">>

\* section.paragraphs?.join(" ") || section.content || ""
joinedContent(section) ==
    LET p == IF Has(section, "paragraphs") THEN join(section.paragraphs, <<" ">>) ELSE <<>>
    IN  IF p # <<>> THEN p
        ELSE IF Has(section, "content") THEN section.content ELSE <<>>

\* lesson.content.sections.findIndex(s => classifySection(s) === "objectives"),
\* scanning from position i: idx is the 1-based index, 0 for -1; threw when a
\* classification raises before a hit
RECURSIVE findObjectivesIdx(_, _)
findObjectivesIdx(sections, i) ==
    IF i > Len(sections) THEN [threw |-> FALSE, idx |-> 0]
    ELSE LET visit(category) ==
                IF category = TypeError THEN [threw |-> TRUE, idx |-> i]
                ELSE IF category = "objectives" THEN [threw |-> FALSE, idx |-> i]
                ELSE findObjectivesIdx(sections, i + 1)
         IN visit(categoryOf[sections[i]])

\* .split(/[\n•\-]/).map(o => o.trim()).filter(o => o.length > 10)
objectivesOf(content) ==
    LET trimmed(lines) == [i \in 1..Len(lines) |-> trim(lines[i])]
    IN SelectSeq(trimmed(split(content, {"\n", "U+2022", "-"})), LAMBDA o : Len(o) > 10)

\* objectivesPhase that uses up a sequence number when it emits no slide
objectivesPhaseCounting(st, section) ==
    IF Has(section, "content") /\ section.content # <<>>
    THEN LET push(objectives) ==
                IF Len(objectives) > 0
                THEN pushSlide(st, "objectives", FALSE,
                        [title |-> <<"W","h","a","t"," ","Y","o","u","'","l","l"," ","L","e","a","r","n">>, objectives |-> slice(objectives, 4)])
                ELSE [st EXCEPT !.sequence = @ + 1]
         IN push(objectivesOf(section.content))
    ELSE [st EXCEPT !.sequence = @ + 1]

\* if (section.content) { ...; if (objectives.length > 0) slides.push(objectivesSlide) }
objectivesPhase(st, section) ==
    IF Has(section, "content") /\ section.content # <<>>
    THEN LET push(objectives) ==
                IF Len(objectives) > 0
                THEN pushSlide(st, "objectives", FALSE,
                        [title |-> <<"W","h","a","t"," ","Y","o","u","'","l","l"," ","L","e","a","r","n">>, objectives |-> slice(objectives, 4)])
                ELSE st
         IN push(objectivesOf(section.content))
    ELSE st

\* vocabularySlides with the loop ending one word early
RECURSIVE vocabularySlidesDropLast(_, _, _)
vocabularySlidesDropLast(st, words, k) ==
    IF k >= Len(words) THEN st
    ELSE LET word == words[k]
         IN vocabularySlidesDropLast(
                pushSlide(st, "vocabulary", TRUE,
                    [term |-> word.term, partOfSpeech |-> word.partOfSpeech,
                     definition |-> word.definition, example |-> word.example]
                    @@ (IF Has(word, "pronunciation")
                        THEN [pronunciation |-> word.pronunciation.phoneticGuide] ELSE <<>>)
                    @@ Opt(word, "imagePrompt", "imagePrompt")),
                words, k + 1)

RECURSIVE vocabularySlides(_, _, _)
vocabularySlides(st, words, k) ==
    IF k > Len(words) THEN st
    ELSE LET word == words[k]
         IN vocabularySlides(
                pushSlide(st, "vocabulary", TRUE,
                    [term |-> word.term, partOfSpeech |-> word.partOfSpeech,
                     definition |-> word.definition, example |-> word.example]
                    @@ (IF Has(word, "pronunciation")
                        THEN [pronunciation |-> word.pronunciation.phoneticGuide] ELSE <<>>)
                    @@ Opt(word, "imagePrompt", "imagePrompt")),
                words, k + 1)

\* quizPair that reveals an answer for structured questions only
quizPairStructuredOnly(st, questions, idx) ==
    LET questionData == questions[idx + 1]
        isObject == questionData.t = "object"
        qObj == questionData.o
        questionText ==
            IF isObject
            THEN IF Has(qObj, "question") /\ qObj.question # <<>>
                 THEN qObj.question ELSE JSONstringify(qObj)
            ELSE IF questionData.t = "null" THEN <<"n","u","l","l">> ELSE questionData.s
        questionOptions == IF isObject THEN Opt(qObj, "options", "options") ELSE <<>>
        correctAnswer ==
            IF isObject /\ Has(qObj, "answer") /\ qObj.answer # <<>>
            THEN qObj.answer ELSE <<"S","e","e"," ","t","h","e"," ","c","o","r","r","e","c","t"," ","a","n","s","w","e","r","!">>
        withQuiz == pushSlide(st, "quiz", FALSE,
                        [questionNumber |-> idx + 1,
                         totalQuestions |-> Min(Len(questions), 5),
                         question |-> questionText] @@ questionOptions)
    IN IF ~isObject THEN withQuiz ELSE pushSlide(withQuiz, "answer", FALSE,
            [questionNumber |-> idx + 1, correctAnswer |-> correctAnswer,
             explanation |-> <<"G","r","e","a","t"," ","j","o","b"," ","t","h","i","n","k","i","n","g"," ","a","b","o","u","t"," ","t","h","i","s"," ","q","u","e","s","t","i","o","n","!">>])

\* one iteration of section.questions.slice(0, 5).forEach((questionData, idx) => ...)
quizPair(st, questions, idx) ==
    LET questionData == questions[idx + 1]
        isObject == questionData.t = "object"
        qObj == questionData.o
        questionText ==
            IF isObject
            THEN IF Has(qObj, "question") /\ qObj.question # <<>>
                 THEN qObj.question ELSE JSONstringify(qObj)
            ELSE IF questionData.t = "null" THEN <<"n","u","l","l">> ELSE questionData.s
        questionOptions == IF isObject THEN Opt(qObj, "options", "options") ELSE <<>>
        correctAnswer ==
            IF isObject /\ Has(qObj, "answer") /\ qObj.answer # <<>>
            THEN qObj.answer ELSE <<"S","e","e"," ","t","h","e"," ","c","o","r","r","e","c","t"," ","a","n","s","w","e","r","!">>
        withQuiz == pushSlide(st, "quiz", FALSE,
                        [questionNumber |-> idx + 1,
                         totalQuestions |-> Min(Len(questions), 5),
                         question |-> questionText] @@ questionOptions)
    IN pushSlide(withQuiz, "answer", FALSE,
            [questionNumber |-> idx + 1, correctAnswer |-> correctAnswer,
             explanation |-> <<"G","r","e","a","t"," ","j","o","b"," ","t","h","i","n","k","i","n","g"," ","a","b","o","u","t"," ","t","h","i","s"," ","q","u","e","s","t","i","o","n","!">>])

\* quizSlides without the slice(0, 5)
RECURSIVE quizSlidesUncapped(_, _, _)
quizSlidesUncapped(st, questions, idx) ==
    IF idx >= Len(questions) THEN st
    ELSE quizSlidesUncapped(quizPair(st, questions, idx), questions, idx + 1)

RECURSIVE quizSlides(_, _, _)
quizSlides(st, questions, idx) ==
    IF idx >= Len(slice(questions, 5)) THEN st
    ELSE quizSlides(quizPair(st, questions, idx), questions, idx + 1)

\* the body of the switch (category) of the per-section loop
sectionSlides(st, section, category) ==
    CASE category = "vocabulary" ->
            IF Has(section, "words") THEN vocabularySlides(st, section.words, 1) ELSE st
      [] category = "grammar" ->
            IF Has(section, "content") /\ section.content # <<>>
            THEN pushSlide(st, "grammar", TRUE,
                    [title |-> section.title, explanation |-> substring(section.content, 300)]
                    @@ (IF Has(section, "paragraphs")
                        THEN [examples |-> slice(section.paragraphs, 2)] ELSE <<>>))
            ELSE st
      [] category \in {"reading", "content"} ->
            IF joinedContent(section) # <<>>
            THEN pushSlide(st, "reading", TRUE,
                    [title |-> section.title, content |-> substring(joinedContent(section), 400)])
            ELSE st
      [] category = "example" ->
            IF joinedContent(section) # <<>>
            THEN pushSlide(st, "example", TRUE,
                    [context |-> section.title, sentence |-> substring(joinedContent(section), 300)]
                    @@ (IF Has(section, "targetVocabulary") /\ Len(section.targetVocabulary) > 0
                        THEN [highlight |-> section.targetVocabulary[1]] ELSE <<>>))
            ELSE st
      [] category = "activity" -> st
      [] category = "quiz" ->
            IF Has(section, "questions") THEN quizSlides(st, section.questions, 0) ELSE st
      [] category = "intro" -> st
      [] OTHER ->
            IF (Has(section, "content") /\ section.content # <<>>) \/ Has(section, "paragraphs")
            THEN IF Len(joinedContent(section)) > 20
                 THEN pushSlide(st, "reading", TRUE,
                        [title |-> section.title, content |-> substring(joinedContent(section), 400)])
                 ELSE st
            ELSE st

\* for (let i = 0; i < sections.length; i++) { if (processedSections.has(i)) continue; ... }
RECURSIVE sectionsPhase(_, _, _, _)
sectionsPhase(st, sections, i, processedSections) ==
    IF i > Len(sections) \/ st.threw THEN st
    ELSE IF i \in processedSections THEN sectionsPhase(st, sections, i + 1, processedSections)
    ELSE LET visit(category) ==
                IF category = TypeError THEN [st EXCEPT !.threw = TRUE]
                ELSE sectionsPhase(sectionSlides(st, sections[i], category),
                        sections, i + 1, processedSections)
         IN visit(categoryOf[sections[i]])

\* summaryPhase without the slice(0, 6)
summaryPhaseUnsliced(st) ==
    LET vocab == SelectSeq(st.slides, LAMBDA s : s.type = "vocabulary")
        vocabularyTerms == [i \in 1..Len(vocab) |-> vocab[i].term]
    IN  IF Len(vocabularyTerms) > 0
        THEN pushSlide(st, "summary", FALSE,
                [title |-> <<"K","e","y"," ","V","o","c","a","b","u","l","a","r","y">>, keyPoints |-> vocabularyTerms])
        ELSE st

\* summaryPhase without the test for an empty term list
summaryPhaseAlways(st) ==
    LET vocab == SelectSeq(st.slides, LAMBDA s : s.type = "vocabulary")
        vocabularyTerms == [i \in 1..Len(vocab) |-> vocab[i].term]
    IN  pushSlide(st, "summary", FALSE,
            [title |-> <<"K","e","y"," ","V","o","c","a","b","u","l","a","r","y">>, keyPoints |-> slice(vocabularyTerms, 6)])

summaryPhase(st) ==
    LET vocab == SelectSeq(st.slides, LAMBDA s : s.type = "vocabulary")
        vocabularyTerms == [i \in 1..Len(vocab) |-> vocab[i].term]
    IN  IF Len(vocabularyTerms) > 0
        THEN pushSlide(st, "summary", FALSE,
                [title |-> <<"K","e","y"," ","V","o","c","a","b","u","l","a","r","y">>, keyPoints |-> slice(vocabularyTerms, 6)])
        ELSE st

\* 1. Title slide, pushed on the empty list after `calls` earlier draws of generateId
titlePhase(lesson, calls) ==
    pushSlide([slides |-> <<>>, sequence |-> 0, calls |-> calls, threw |-> FALSE],
        "title", TRUE,
        [title |-> lesson.title]
        @@ Opt(lesson.content, "focus", "subtitle")
        @@ Opt(lesson, "cefrLevel", "level")
        @@ Opt(lesson, "topic", "topic"))

\* hookPhase with a hook slide that asks for no image
hookPhaseNoImage(lesson, st) ==
    pushSlide(st, "hook", FALSE,
        [hookText |-> <<"R","e","a","d","y"," ","t","o"," ","m","a","s","t","e","r"," ">> \o Template(lesson, "topic") \o <<"?"," ","L","e","t","'","s"," ","g","o","!"," ","U+D83D","U+DE80">>,
         hookType |-> "teaser"])

\* 2. Hook slide
hookPhase(lesson, st) ==
    pushSlide(st, "hook", TRUE,
        [hookText |-> <<"R","e","a","d","y"," ","t","o"," ","m","a","s","t","e","r"," ">> \o Template(lesson, "topic") \o <<"?"," ","L","e","t","'","s"," ","g","o","!"," ","U+D83D","U+DE80">>,
         hookType |-> "teaser"])

\* outroPhase with the outro slide pushed before the summary slide
outroPhaseBeforeSummary(lesson, st) ==
    IF st.threw THEN st
    ELSE summaryPhase(pushSlide(st, "outro", TRUE,
            [message |-> <<"G","r","e","a","t"," ","j","o","b"," ","l","e","a","r","n","i","n","g"," ","a","b","o","u","t"," ">> \o Template(lesson, "topic") \o <<"!">>,
             callToAction |-> <<"F","o","l","l","o","w"," ","f","o","r"," ","m","o","r","e"," ","l","e","s","s","o","n","s","!">>]))

\* 5. Outro slide, after the summary slide
outroPhase(lesson, st) ==
    IF st.threw THEN st
    ELSE pushSlide(summaryPhase(st), "outro", TRUE,
            [message |-> <<"G","r","e","a","t"," ","j","o","b"," ","l","e","a","r","n","i","n","g"," ","a","b","o","u","t"," ">> \o Template(lesson, "topic") \o <<"!">>,
             callToAction |-> <<"F","o","l","l","o","w"," ","f","o","r"," ","m","o","r","e"," ","l","e","s","s","o","n","s","!">>])

\* fromObjectives that does not mark the objectives section as processed
fromObjectivesUnmarked(lesson, st, found) ==
    IF found.threw THEN [st EXCEPT !.threw = TRUE]
    ELSE IF found.idx # 0
    THEN outroPhase(lesson,
            sectionsPhase(objectivesPhase(st, lesson.content.sections[found.idx]),
                          lesson.content.sections, 1, {}))
    ELSE outroPhase(lesson, sectionsPhase(st, lesson.content.sections, 1, {}))

\* the objectives slide, the per-section loop, the summary and the outro,
\* given the result of the findIndex
fromObjectives(lesson, st, found) ==
    IF found.threw THEN [st EXCEPT !.threw = TRUE]
    ELSE IF found.idx # 0
    THEN outroPhase(lesson,
            sectionsPhase(objectivesPhase(st, lesson.content.sections[found.idx]),
                          lesson.content.sections, 1, {found.idx}))
    ELSE outroPhase(lesson, sectionsPhase(st, lesson.content.sections, 1, {}))

\* lessonToSlides(lesson) with `calls` draws of generateId made before it:
\* [slides, sequence, calls, threw]; threw = TRUE when it raised a TypeError
lessonToSlides(lesson, calls) ==
    fromObjectives(lesson, hookPhase(lesson, titlePhase(lesson, calls)),
                   findObjectivesIdx(lesson.content.sections, 1))

----------------------------------------------------------------------------
(* The earlier build of the assembler: no hook slide, an activity slide for
   every activity section, no answer slides.  Its classifySection,
   objectives, vocabulary, grammar, reading, example, intro and default
   branches, summary and outro are the same text as in server/routes.ts. *)

RECURSIVE quizSlides003(_, _, _)
quizSlides003(st, questions, idx) ==
    IF idx >= Len(slice(questions, 5)) THEN st
    ELSE LET questionData == questions[idx + 1]
             isObject == questionData.t = "object"
             qObj == questionData.o
             questionText ==
                IF isObject
                THEN IF Has(qObj, "question") /\ qObj.question # <<>>
                     THEN qObj.question ELSE JSONstringify(qObj)
                ELSE IF questionData.t = "null" THEN <<"n","u","l","l">> ELSE questionData.s
             questionOptions == IF isObject THEN Opt(qObj, "options", "options") ELSE <<>>
         IN quizSlides003(
                pushSlide(st, "quiz", FALSE,
                    [questionNumber |-> idx + 1,
                     totalQuestions |-> Min(Len(questions), 5),
                     question |-> questionText] @@ questionOptions),
                questions, idx + 1)

sectionSlides003(st, section, category) ==
    CASE category = "activity" ->
            pushSlide(st, "activity", FALSE,
                [title |-> section.title,
                 instructions |->
                    IF Has(section, "procedure") /\ section.procedure # <<>> THEN section.procedure
                    ELSE IF Has(section, "content") /\ section.content # <<>> THEN section.content
                    ELSE <<"C","o","m","p","l","e","t","e"," ","t","h","e"," ","f","o","l","l","o","w","i","n","g"," ","a","c","t","i","v","i","t","y",".">>]
                @@ Opt(section, "targetVocabulary", "targetVocabulary"))
      [] category = "quiz" ->
            IF Has(section, "questions") THEN quizSlides003(st, section.questions, 0) ELSE st
      [] OTHER -> sectionSlides(st, section, category)

RECURSIVE sectionsPhase003(_, _, _, _)
sectionsPhase003(st, sections, i, processedSections) ==
    IF i > Len(sections) \/ st.threw THEN st
    ELSE IF i \in processedSections THEN sectionsPhase003(st, sections, i + 1, processedSections)
    ELSE LET visit(category) ==
                IF category = TypeError THEN [st EXCEPT !.threw = TRUE]
                ELSE sectionsPhase003(sectionSlides003(st, sections[i], category),
                        sections, i + 1, processedSections)
         IN visit(categoryOf[sections[i]])

fromObjectives003(lesson, st, found) ==
    IF found.threw THEN [st EXCEPT !.threw = TRUE]
    ELSE IF found.idx # 0
    THEN outroPhase(lesson,
            sectionsPhase003(objectivesPhase(st, lesson.content.sections[found.idx]),
                             lesson.content.sections, 1, {found.idx}))
    ELSE outroPhase(lesson, sectionsPhase003(st, lesson.content.sections, 1, {}))

lessonToSlides003(lesson, calls) ==
    fromObjectives003(lesson, titlePhase(lesson, calls),
                      findObjectivesIdx(lesson.content.sections, 1))

\* the lessonToSlides of the build that is running
assemble(lesson, calls) ==
    IF engine = "part_003" THEN lessonToSlides003(lesson, calls)
    ELSE lessonToSlides(lesson, calls)

----------------------------------------------------------------------------
(* POST /api/lesson-to-slides *)

\* hasTitleAndSections that also wants the sections list non-empty
hasTitleAndNonEmptySections(lesson) ==
    /\ Has(lesson, "title") /\ lesson.title # <<>>
    /\ Has(lesson, "content") /\ Has(lesson.content, "sections")
    /\ lesson.content.sections # <<>>

\* !(!lesson.title || !lesson.content?.sections)
hasTitleAndSections(lesson) ==
    /\ Has(lesson, "title") /\ lesson.title # <<>>
    /\ Has(lesson, "content") /\ Has(lesson.content, "sections")

reelJson(lesson, slides) ==
    Opt(lesson, "id", "lessonId") @@ [title |-> lesson.title]
    @@ Opt(lesson, "cefrLevel", "level") @@ Opt(lesson, "topic", "topic")
    @@ [totalSlides |-> Len(slides),
        slides |-> [i \in 1..Len(slides) |-> [slide |-> slides[i]]]]

\* if (!lesson) return res.status(400)
LessonToSlidesMissing ==
    /\ Len(responses) <= retries
    /\ ~Has(body, "lesson")
    /\ responses' = Append(responses, [status |-> 400, error |-> "Lesson data is required"])
    /\ UNCHANGED <<engine, body, rng, rngCalls, retries, scriptVars, restVars>>

\* if (!lesson.title || !lesson.content?.sections) return res.status(400)
LessonToSlidesInvalid ==
    /\ Len(responses) <= retries
    /\ Has(body, "lesson") /\ ~hasTitleAndSections(body.lesson)
    /\ responses' = Append(responses, [status |-> 400, error |-> "Invalid lesson format"])
    /\ UNCHANGED <<engine, body, rng, rngCalls, retries, scriptVars, restVars>>

\* const slides = lessonToSlides(lesson); res.json({...})
LessonToSlidesOk ==
    /\ Len(responses) <= retries
    /\ Has(body, "lesson") /\ hasTitleAndSections(body.lesson)
    /\ LET respond(r) ==
            /\ ~r.threw
            /\ responses' = Append(responses, [status |-> 200, json |-> reelJson(body.lesson, r.slides)])
            /\ rngCalls' = r.calls
       IN respond(assemble(body.lesson, rngCalls))
    /\ UNCHANGED <<engine, body, rng, retries, scriptVars, restVars>>

\* catch (error) { res.status(500) }
LessonToSlidesFailed ==
    /\ Len(responses) <= retries
    /\ Has(body, "lesson") /\ hasTitleAndSections(body.lesson)
    /\ LET respond(r) ==
            /\ r.threw
            /\ responses' = Append(responses, [status |-> 500, error |-> "Failed to convert lesson to slides"])
            /\ rngCalls' = r.calls
       IN respond(assemble(body.lesson, rngCalls))
    /\ UNCHANGED <<engine, body, rng, retries, scriptVars, restVars>>

NoScriptReq == [idle |-> TRUE]

\* one post of any lesson, served by server/routes.ts with a generator whose
\* draws are distinct
Init ==
    /\ engine = "routes"
    /\ body \in Bodies
    /\ rng = 0
    /\ rngCalls = 0
    /\ retries = 0
    /\ responses = <<>>
    /\ scriptReq = NoScriptReq
    /\ scriptRes = <<>>
    /\ enhance = Idle /\ batch = Idle /\ imageReq = Idle
    /\ page = FreshPage /\ uploads = <<>>

Next ==
    \/ LessonToSlidesMissing
    \/ LessonToSlidesInvalid
    \/ LessonToSlidesOk
    \/ LessonToSlidesFailed

Spec == Init /\ [][Next]_vars

\* either build of the server, on lessons of at most one section
InitEngines ==
    /\ engine \in {"routes", "part_003"}
    /\ body \in {b \in Bodies : (Has(b, "lesson") /\ hasTitleAndSections(b.lesson))
                                    => Len(b.lesson.content.sections) <= 1}
    /\ rng \in 0..MaxRng
    /\ rngCalls = 0
    /\ retries = 0
    /\ responses = <<>>
    /\ scriptReq = NoScriptReq
    /\ scriptRes = <<>>
    /\ enhance = Idle /\ batch = Idle /\ imageReq = Idle
    /\ page = FreshPage /\ uploads = <<>>

SpecEngines == InitEngines /\ [][Next]_vars

\* lessons made of the sections that carry content, posted 1 + MaxRetries
\* times, with any generator
IdBodies ==
    { [lesson |-> FullLesson(ss)] :
        ss \in UNION { [1..n -> RichSections] : n \in 0..MaxSections } }
    \cup { [lesson |-> FullLesson(<<s>>)] : s \in MalformedSections }
    \cup { [lesson |-> l] : l \in InvalidLessons } \cup { EmptyBody }

InitIds ==
    /\ engine = "routes"
    /\ body \in IdBodies
    /\ rng \in 0..MaxRng
    /\ rngCalls = 0
    /\ retries = MaxRetries
    /\ responses = <<>>
    /\ scriptReq = NoScriptReq
    /\ scriptRes = <<>>
    /\ enhance = Idle /\ batch = Idle /\ imageReq = Idle
    /\ page = FreshPage /\ uploads = <<>>

SpecIds == InitIds /\ [][Next]_vars


----------------------------------------------------------------------------
(* JavaScript numbers of seconds.  estimateDuration returns the double
   nearest to a multiple of 0.1 and the generator adds such doubles up, each
   sum rounded to the nearest double (ties to even).  Every value met is 0 or
   at least 2, so it is a whole number of units of 2^-51; ten times that
   number is written t * 2^51 + d in the record [t, d]: t tenths of a second
   and the deviation d, which stays small.  d = 0 only for the values that
   are exact in binary (2.0, 2.5, ...). *)

\* 2^n mod 5
pow2mod5(n) == <<1, 2, 4, 3>>[(n % 4) + 1]

\* the exponent e with 2^e <= (t * 2^51 + d) / (10 * 2^51) < 2^(e + 1), e >= 1
RECURSIVE binadeFrom(_, _, _)
binadeFrom(t, d, e) ==
    IF t > 10 * 2^(e + 1) \/ (t = 10 * 2^(e + 1) /\ d >= 0)
    THEN binadeFrom(t, d, e + 1) ELSE e

\* round-to-nearest-even of the exact value [t, d] to a double: in its binade
\* a double is a multiple of u = 2^(e - 1) units, that is [t, d] with
\* t * 2^51 + d a multiple of 10 * u = 5 * 2^e
roundToDouble(t, d) ==
    IF t = 0 /\ d = 0 THEN [t |-> 0, d |-> 0]
    ELSE LET round(e) ==
                LET tenUlp == 5 * 2^e
                    rem == (2^e * ((t * pow2mod5(51 - e)) % 5) + d) % tenUlp
                    remTwo == (2^(e + 1) * ((t * pow2mod5(50 - e)) % 5) + d) % (2 * tenUlp)
                IN  IF 2 * rem < tenUlp THEN [t |-> t, d |-> d - rem]
                    ELSE IF 2 * rem > tenUlp THEN [t |-> t, d |-> d + tenUlp - rem]
                    ELSE IF remTwo >= tenUlp THEN [t |-> t, d |-> d + tenUlp - rem]
                    ELSE [t |-> t, d |-> d - rem]
         IN round(binadeFrom(t, d, 1))

\* the double nearest to k / 10, for k = 0 or k >= 20
tenths(k) == roundToDouble(k, 0)

\* a + b of two doubles
plus(a, b) == roundToDouble(a.t + b.t, a.d + b.d)

\* Math.floor(x) of a double
floor(x) == IF x.t % 10 = 0 /\ x.d < 0 THEN (x.t \div 10) - 1 ELSE x.t \div 10

\* Math.round((x % 1) * 1000): x % 1 is exact, and the product lies within
\* 10^-9 of a multiple of 100, or just below 1000
roundMillis(x) == IF x.t % 10 = 0 /\ x.d < 0 THEN 1000 ELSE (x.t % 10) * 100

----------------------------------------------------------------------------
(* server/scriptGenerator.ts *)

\* typeMultipliers[slideType] || 1.0, times ten
typeMultiplier10(slideType) ==
    CASE slideType = "title" -> 15
      [] slideType = "vocabulary" -> 13
      [] slideType = "quiz" -> 20
      [] slideType = "answer" -> 15
      [] slideType = "hook" -> 12
      [] slideType = "outro" -> 13
      [] OTHER -> 10

\* Math.max(2, Math.round(wordCount / 2.5 * multiplier * 10) / 10).
\* wordCount / 2.5 * multiplier * 10 = 4 * wordCount * multiplier10 / 10 is a
\* multiple of 1/5, so Math.round never sees a tie and returns the integer k
\* nearest to it; k / 10 is the double nearest to that quotient.
estimateDuration(text, slideType) ==
    LET wordCount == Len(splitRuns(text))
    IN tenths(Max(20, (4 * wordCount * typeMultiplier10(slideType) + 5) \div 10))

Digits == <<"0","1","2","3","4","5","6","7","8","9">>

\* n.toString() for a natural number
RECURSIVE toString(_)
toString(n) == IF n < 10 THEN <<Digits[n + 1]>> ELSE toString(n \div 10) \o <<Digits[(n % 10) + 1]>>

toneAdjust(tone) ==
    CASE tone = "professional" ->
            [greeting |-> <<"W","e","l","c","o","m","e"," ","t","o">>, emphasis |-> <<"i","m","p","o","r","t","a","n","t","l","y">>,
             closing |-> <<"T","h","a","n","k"," ","y","o","u"," ","f","o","r"," ","l","e","a","r","n","i","n","g"," ","w","i","t","h"," ","u","s",".">>]
      [] tone = "casual" ->
            [greeting |-> <<"H","e","y","!"," ","L","e","t","'","s"," ","d","i","v","e"," ","i","n","t","o">>, emphasis |-> <<"s","e","r","i","o","u","s","l","y">>,
             closing |-> <<"T","h","a","n","k","s"," ","f","o","r"," ","w","a","t","c","h","i","n","g","!">>]
      [] tone = "fun" ->
            [greeting |-> <<"G","e","t"," ","r","e","a","d","y"," ","f","o","r">>, emphasis |-> <<"s","u","p","e","r">>,
             closing |-> <<"Y","o","u"," ","c","r","u","s","h","e","d"," ","i","t","!"," ","S","e","e"," ","y","o","u"," ","n","e","x","t"," ","t","i","m","e","!">>]

Text(s) == [threw |-> FALSE, text |-> s]
Throws == [threw |-> TRUE]

\* generateSlideText(slide, tone): the text, or Throws where the code reads a
\* property of undefined
generateSlideText(slide, tone) ==
    LET t == toneAdjust(tone)
        type == IF Has(slide, "type") THEN slide.type ELSE "undefined"
    IN
    CASE type = "title" ->
            Text(t.greeting \o <<" ","t","o","d","a","y","'","s"," ","l","e","s","s","o","n",":"," ">> \o Template(slide, "title")
                 \o <<"."," ","W","e","'","l","l"," ","b","e"," ","e","x","p","l","o","r","i","n","g"," ">> \o Template(slide, "topic")
                 \o <<" ","a","t"," ","t","h","e"," ">> \o Template(slide, "level") \o <<" ","l","e","v","e","l",".">>)
      [] type = "hook" ->
            Text(IF Has(slide, "hookText") /\ slide.hookText # <<>> THEN slide.hookText
                 ELSE <<"H","e","r","e","'","s"," ","s","o","m","e","t","h","i","n","g"," ","i","n","t","e","r","e","s","t","i","n","g"," ","t","o"," ","t","h","i","n","k"," ","a","b","o","u","t",".",".",".">>)
      [] type = "objectives" ->
            IF ~Has(slide, "objectives") THEN Throws
            ELSE Text(<<"B","y"," ","t","h","e"," ","e","n","d"," ","o","f"," ","t","h","i","s"," ","l","e","s","s","o","n",","," ","y","o","u"," ","w","i","l","l"," ","b","e"," ","a","b","l","e"," ","t","o",":"," ">>
                      \o join(slide.objectives, <<"."," ">>))
      [] type = "vocabulary" ->
            Text(<<"O","u","r"," ","n","e","x","t"," ","w","o","r","d"," ","i","s"," ","\"">> \o Template(slide, "term") \o <<"\"","."," ","I","t","'","s"," ","a"," ">>
                 \o Template(slide, "partOfSpeech") \o <<"."," ">> \o Template(slide, "definition")
                 \o <<"."," ","F","o","r"," ","e","x","a","m","p","l","e",":"," ","\"">> \o Template(slide, "example") \o <<"\"">>)
      [] type = "grammar" ->
            Text(<<"L","e","t","'","s"," ","l","o","o","k"," ","a","t"," ">> \o Template(slide, "title") \o <<"."," ">>
                 \o Template(slide, "explanation")
                 \o (IF Has(slide, "examples") /\ Len(slide.examples) > 0 /\ slide.examples[1] # <<>>
                     THEN <<" ","H","e","r","e","'","s"," ","a","n"," ","e","x","a","m","p","l","e",":"," ","\"">> \o slide.examples[1] \o <<"\"">> ELSE <<>>))
      [] type = "reading" ->
            Text(IF Has(slide, "content") THEN slide.content ELSE <<>>)
      [] type = "example" ->
            Text(Template(slide, "context") \o <<":"," ","\"">> \o Template(slide, "sentence") \o <<"\"">>
                 \o (IF Has(slide, "highlight") /\ slide.highlight # <<>>
                     THEN <<" ","N","o","t","i","c","e"," ","h","o","w"," ","w","e"," ","u","s","e"," ","\"">> \o slide.highlight \o <<"\""," ","h","e","r","e",".">> ELSE <<>>))
      [] type = "quiz" ->
            IF ~Has(slide, "question") THEN Throws
            ELSE Text(<<"Q","u","e","s","t","i","o","n"," ">>
                      \o (IF Has(slide, "questionNumber") THEN toString(slide.questionNumber)
                          ELSE <<"u","n","d","e","f","i","n","e","d">>)
                      \o <<":"," ">> \o slide.question
                      \o (IF Has(slide, "options")
                          THEN <<" ","Y","o","u","r"," ","o","p","t","i","o","n","s"," ","a","r","e",":"," ">> \o join(slide.options, <<","," ">>) ELSE <<>>)
                      \o <<" ","T","a","k","e"," ","a"," ","m","o","m","e","n","t"," ","t","o"," ","t","h","i","n","k",".",".",".">>)
      [] type = "answer" ->
            Text(<<"T","h","e"," ","a","n","s","w","e","r"," ","i","s",":"," ">> \o Template(slide, "correctAnswer") \o <<"."," ">>
                 \o (IF Has(slide, "explanation") THEN slide.explanation ELSE <<>>))
      [] type = "summary" ->
            IF ~Has(slide, "keyPoints") THEN Throws
            ELSE Text(<<"L","e","t","'","s"," ","r","e","v","i","e","w"," ","w","h","a","t"," ","w","e"," ","l","e","a","r","n","e","d","."," ","K","e","y"," ","v","o","c","a","b","u","l","a","r","y",":"," ">>
                      \o join(slide.keyPoints, <<","," ">>) \o <<".">>)
      [] type = "outro" ->
            Text(Template(slide, "message") \o <<" ">>
                 \o (IF Has(slide, "callToAction") /\ slide.callToAction # <<>>
                     THEN slide.callToAction ELSE t.closing))
      [] OTHER -> Text(<<>>)

extractPronunciationHints(slide) ==
    IF Has(slide, "type") /\ slide.type = "vocabulary"
       /\ Has(slide, "pronunciation") /\ slide.pronunciation # <<>>
    THEN << Template(slide, "term") \o <<":"," ">> \o slide.pronunciation >>
    ELSE <<>>

\* scriptStep that advances currentTime before it stamps the line
scriptStepLateStamp(acc, genSlide, i, tone) ==
    LET slide == genSlide.slide
        r == generateSlideText(slide, tone)
    IN  IF r.threw THEN [acc EXCEPT !.threw = TRUE]
        ELSE IF r.text # <<>>
        THEN LET duration == estimateDuration(r.text, slide.type)
             IN [acc EXCEPT
                    !.lines = Append(@,
                        Opt(slide, "id", "slideId") @@
                        [slideNumber |-> i, slideType |-> slide.type, text |-> r.text,
                         pronunciationHints |-> extractPronunciationHints(slide),
                         suggestedDurationSeconds |-> duration,
                         startTimeSeconds |-> plus(acc.currentTime, duration)]),
                    !.currentTime = plus(@, duration)]
        ELSE acc

\* one iteration of the loop of generateVoiceoverScript, for reel.slides[i - 1]
scriptStep(acc, genSlide, i, tone) ==
    LET slide == genSlide.slide
        r == generateSlideText(slide, tone)
    IN  IF r.threw THEN [acc EXCEPT !.threw = TRUE]
        ELSE IF r.text # <<>>
        THEN LET duration == estimateDuration(r.text, slide.type)
             IN [acc EXCEPT
                    !.lines = Append(@,
                        Opt(slide, "id", "slideId") @@
                        [slideNumber |-> i, slideType |-> slide.type, text |-> r.text,
                         pronunciationHints |-> extractPronunciationHints(slide),
                         suggestedDurationSeconds |-> duration,
                         startTimeSeconds |-> acc.currentTime]),
                    !.currentTime = plus(@, duration)]
        ELSE acc

RECURSIVE scriptLoop(_, _, _, _)
scriptLoop(slides, tone, i, acc) ==
    IF i > Len(slides) \/ acc.threw THEN acc
    ELSE scriptLoop(slides, tone, i + 1, scriptStep(acc, slides[i], i, tone))

generateVoiceoverScript(reel, tone) ==
    LET acc == scriptLoop(reel.slides, tone, 1,
                          [lines |-> <<>>, currentTime |-> tenths(0), threw |-> FALSE])
    IN  IF acc.threw THEN Throws
        ELSE [threw |-> FALSE,
              script |-> Opt(reel, "title", "lessonTitle") @@
                         [totalDurationSeconds |-> acc.currentTime, lines |-> acc.lines]]

padStart(s, n, c) == [i \in 1..(n - Len(s)) |-> c] \o s

\* formatSRTTime(seconds).  seconds % 3600, % 60 and % 1 are exact; the
\* quotients seconds / 3600 and (seconds % 3600) / 60 are rounded, but never
\* up to the next whole number, so their floors are those of the exact
\* quotients.
formatSRTTime(seconds) ==
    LET h == floor(seconds) \div 3600
        m == (floor(seconds) % 3600) \div 60
        sec == floor(seconds) % 60
        ms == roundMillis(seconds)
    IN padStart(toString(h), 2, "0") \o <<":">> \o padStart(toString(m), 2, "0") \o <<":">>
       \o padStart(toString(sec), 2, "0") \o <<",">> \o padStart(toString(ms), 3, "0")

MaxLineChars == 42

\* the for (const word of words) loop of generateSRT and the flush after it
RECURSIVE wrapWords(_, _, _, _)
wrapWords(words, k, currentLine, subtitleLines) ==
    IF k > Len(words)
    THEN IF trim(currentLine) # <<>> THEN Append(subtitleLines, trim(currentLine))
         ELSE subtitleLines
    ELSE IF Len(currentLine \o <<" ">> \o words[k]) > MaxLineChars
         THEN wrapWords(words, k + 1, words[k], Append(subtitleLines, trim(currentLine)))
         ELSE wrapWords(words, k + 1, currentLine \o <<" ">> \o words[k], subtitleLines)

\* the four srtLines entries generateSRT pushes for script.lines[i - 1]
srtCue(line, i) ==
    LET startTime == formatSRTTime(line.startTimeSeconds)
        endTime == formatSRTTime(plus(line.startTimeSeconds, line.suggestedDurationSeconds))
        subtitleLines == wrapWords(split(line.text, {" "}), 1, <<>>, <<>>)
    IN << toString(i),
          startTime \o <<" ","-","-",">"," ">> \o endTime,
          join(slice(subtitleLines, 2), <<"\n">>),
          <<>> >>

\* generateSRT(script): the srtLines array; the returned string is its join
\* with "\n"
RECURSIVE generateSRT(_, _)
generateSRT(script, i) ==
    IF i > Len(script.lines) THEN <<>>
    ELSE srtCue(script.lines[i], i) \o generateSRT(script, i + 1)

----------------------------------------------------------------------------
(* Reels the client may post to /api/generate-script *)

Repeat(c, n) == [i \in 1..n |-> c]

Slide(id, type, payload) ==
    [id |-> id, type |-> type, sequence |-> 0, requiresImage |-> FALSE] @@ payload

SlideCatalog ==
    { Slide(<<"t","1">>, "title", [title |-> <<"F","o","o","d"," ","V","o","c","a","b","u","l","a","r","y">>, topic |-> <<"F","o","o","d">>, level |-> <<"A","2">>]),
      Slide(<<"h","1">>, "hook", [hookText |-> <<"R","e","a","d","y"," ","t","o"," ","m","a","s","t","e","r"," ","F","o","o","d","?"," ","L","e","t","'","s"," ","g","o","!"," ","U+D83D","U+DE80">>, hookType |-> "teaser"]),
      Slide(<<"o","1">>, "objectives", [title |-> <<"W","h","a","t"," ","Y","o","u","'","l","l"," ","L","e","a","r","n">>,
                                  objectives |-> <<<<"L","e","a","r","n"," ","g","r","e","e","t","i","n","g","s">>, <<"P","r","a","c","t","i","c","e"," ","i","n","t","r","o","d","u","c","t","i","o","n","s">>>>]),
      Slide(<<"v","1">>, "vocabulary", [term |-> <<"a","p","p","l","e">>, partOfSpeech |-> <<"n","o","u","n">>,
                                  definition |-> <<"a"," ","r","o","u","n","d"," ","f","r","u","i","t">>, example |-> <<"I"," ","e","a","t"," ","a","n"," ","a","p","p","l","e",".">>,
                                  pronunciation |-> <<"A","P","-","u","h","l">>]),
      Slide(<<"g","1">>, "grammar", [title |-> <<"P","r","e","s","e","n","t"," ","S","i","m","p","l","e">>, explanation |-> <<"U","s","e"," ","i","t"," ","f","o","r"," ","h","a","b","i","t","s",".">>,
                               examples |-> <<<<"I"," ","e","a","t",".">>>>]),
      Slide(<<"r","1">>, "reading", [title |-> <<"S","t","o","r","y">>,
            content |-> <<"T","o","m"," ","e","a","t","s"," ","r","i","c","e"," ","a","n","d"," ","b","r","e","a","d"," ","e","v","e","r","y"," ","d","a","y"," ","b","e","c","a","u","s","e"," ","h","e"," ","l","i","k","e","s"," ","s","i","m","p","l","e"," ","f","o","o","d"," ","a","n","d"," ","c","o","o","k","s"," ","i","t"," ","a","t"," ","h","o","m","e"," ","w","i","t","h"," ","h","i","s"," ","f","a","m","i","l","y",".">>]),
      Slide(<<"r","2">>, "reading", [title |-> <<"L","o","n","g">>, content |-> Repeat("x", 43)]),
      Slide(<<"r","3">>, "reading", [title |-> <<"E","d","g","e">>, content |-> Repeat("y", 42) \o <<" ">> \o Repeat("z", 41) \o <<" ","e","n","d">>]),
      Slide(<<"r","4">>, "reading", [title |-> <<"E","m","p","t","y">>, content |-> <<>>]),
      Slide(<<"e","1">>, "example", [context |-> <<"A","t"," ","t","h","e"," ","c","a","f","e">>, sentence |-> <<"A",":"," ","T","e","a","?"," ","B",":"," ","Y","e","s",".">>,
                               highlight |-> <<"t","e","a">>]),
      Slide(<<"q","1">>, "quiz", [questionNumber |-> 1, totalQuestions |-> 1,
                            question |-> <<"I","s"," ","i","t"," ","r","e","d","?">>, options |-> <<<<"y","e","s">>, <<"n","o">>>>]),
      Slide(<<"a","1">>, "answer", [questionNumber |-> 1, correctAnswer |-> <<"y","e","s">>,
                              explanation |-> <<"G","r","e","a","t"," ","j","o","b"," ","t","h","i","n","k","i","n","g"," ","a","b","o","u","t"," ","t","h","i","s"," ","q","u","e","s","t","i","o","n","!">>]),
      Slide(<<"s","1">>, "summary", [title |-> <<"K","e","y"," ","V","o","c","a","b","u","l","a","r","y">>, keyPoints |-> <<<<"a","p","p","l","e">>, <<"b","r","e","a","d">>>>]),
      Slide(<<"u","1">>, "outro", [message |-> <<"G","r","e","a","t"," ","j","o","b"," ","l","e","a","r","n","i","n","g"," ","a","b","o","u","t"," ","F","o","o","d","!">>]),
      Slide(<<"c","1">>, "activity", [title |-> <<"P","a","i","r"," ","w","o","r","k">>, instructions |-> <<"A","s","k"," ","a"," ","p","a","r","t","n","e","r",".">>]),
      \* slides with a payload field missing
      Slide(<<"o","2">>, "objectives", [title |-> <<"W","h","a","t"," ","Y","o","u","'","l","l"," ","L","e","a","r","n">>]),
      Slide(<<"s","2">>, "summary", [title |-> <<"K","e","y"," ","V","o","c","a","b","u","l","a","r","y">>]),
      Slide(<<"q","2">>, "quiz", [questionNumber |-> 2, totalQuestions |-> 2]) }

SlideLists == UNION { [1..n -> SlideCatalog] : n \in 0..MaxReelSlides }

ReelOf(slides) ==
    [lessonId |-> 7, title |-> <<"F","o","o","d"," ","V","o","c","a","b","u","l","a","r","y">>, level |-> <<"A","2">>, topic |-> <<"F","o","o","d">>,
     totalSlides |-> Len(slides),
     slides |-> [i \in 1..Len(slides) |-> [slide |-> slides[i]]]]

ScriptBodies ==
    { [reel |-> ReelOf(ss)] : ss \in SlideLists }
    \cup { [reel |-> ReelOf(ss), tone |-> tone] : ss \in SlideLists, tone \in {"casual", "fun"} }
    \cup { EmptyBody }

----------------------------------------------------------------------------
(* POST /api/generate-script *)

\* const { reel, tone = "professional" } = req.body
toneOf(req) == IF Has(req, "tone") THEN req.tone ELSE "professional"

\* if (!reel) return res.status(400)
GenerateScriptMissing ==
    /\ scriptReq # NoScriptReq /\ scriptRes = <<>>
    /\ ~Has(scriptReq, "reel")
    /\ scriptRes' = <<[status |-> 400, error |-> "Reel data is required"]>>
    /\ UNCHANGED <<slideVars, scriptReq, restVars>>

\* generateVoiceoverScript, generateSRT, res.json (scriptText, the plain-text
\* rendering of the same script, is not part of the record)
GenerateScriptOk ==
    /\ scriptReq # NoScriptReq /\ scriptRes = <<>>
    /\ Has(scriptReq, "reel")
    /\ LET r == generateVoiceoverScript(scriptReq.reel, toneOf(scriptReq))
       IN /\ ~r.threw
          /\ scriptRes' = <<[status |-> 200,
                             json |-> [script |-> r.script,
                                       srtContent |-> generateSRT(r.script, 1)]]>>
    /\ UNCHANGED <<slideVars, scriptReq, restVars>>

\* catch (error) { res.status(500) }
GenerateScriptFailed ==
    /\ scriptReq # NoScriptReq /\ scriptRes = <<>>
    /\ Has(scriptReq, "reel")
    /\ generateVoiceoverScript(scriptReq.reel, toneOf(scriptReq)).threw
    /\ scriptRes' = <<[status |-> 500, error |-> "Failed to generate script"]>>
    /\ UNCHANGED <<slideVars, scriptReq, restVars>>

InitScript ==
    /\ engine = "routes"
    /\ body = EmptyBody
    /\ rng = 0
    /\ rngCalls = 0
    /\ retries = 0
    /\ responses = <<>>
    /\ scriptReq \in ScriptBodies
    /\ scriptRes = <<>>
    /\ enhance = Idle /\ batch = Idle /\ imageReq = Idle
    /\ page = FreshPage /\ uploads = <<>>

NextScript ==
    \/ GenerateScriptMissing
    \/ GenerateScriptOk
    \/ GenerateScriptFailed

SpecScript == InitScript /\ [][NextScript]_vars

\* reels of slides with few words, long enough for the sums of durations to
\* meet the doubles that are not multiples of 0.1
TimedSlides ==
    { Slide(<<"w","6">>, "reading", [title |-> <<"S","i","x">>, content |-> <<"T","o","m"," ","e","a","t","s"," ","r","i","c","e"," ","a","n","d"," ","b","r","e","a","d"," ","d","a","i","l","y">>]),
      Slide(<<"w","7">>, "reading", [title |-> <<"S","e","v","e","n">>, content |-> <<"T","o","m"," ","e","a","t","s"," ","r","i","c","e"," ","a","n","d"," ","b","r","e","a","d"," ","e","v","e","r","y"," ","d","a","y">>]),
      Slide(<<"h","2">>, "hook", [hookText |-> <<"R","e","a","d","y"," ","t","o"," ","m","a","s","t","e","r"," ","F","o","o","d"," ","n","o","w">>, hookType |-> "teaser"]),
      Slide(<<"a","2">>, "answer", [questionNumber |-> 1, correctAnswer |-> <<"y","e","s">>]),
      Slide(<<"q","2">>, "quiz", [questionNumber |-> 2, totalQuestions |-> 2]) }

TimedBodies ==
    { [reel |-> ReelOf(ss)] :
        ss \in UNION { [1..n -> TimedSlides] : n \in 0..MaxTimedSlides } }
    \cup { [reel |-> ReelOf(<<s>>), tone |-> "fun"] : s \in TimedSlides }
    \cup { EmptyBody }

InitTimed ==
    /\ engine = "routes"
    /\ body = EmptyBody
    /\ rng = 0
    /\ rngCalls = 0
    /\ retries = 0
    /\ responses = <<>>
    /\ scriptReq \in TimedBodies
    /\ scriptRes = <<>>
    /\ enhance = Idle /\ batch = Idle /\ imageReq = Idle
    /\ page = FreshPage /\ uploads = <<>>

SpecTimed == InitTimed /\ [][NextScript]_vars

----------------------------------------------------------------------------
(* enhanceScriptWithAI and POST /api/enhance-script.  The request awaits one
   chat completion per script line; each await is a step, and the service
   either answers with a text, answers without content, or the call rejects. *)

\* texts the completion may return
EnhancedTexts ==
    { <<"D","i","d"," ","y","o","u"," ","k","n","o","w","?"," ","T","o","m"," ","e","a","t","s"," ","r","i","c","e"," ","a","n","d"," ","b","r","e","a","d"," ","e","v","e","r","y"," ","s","i","n","g","l","e"," ","d","a","y","!">>, <<"W","o","w","!">> }

\* try: enhancedLines.push({...line, text: enhancedText,
\*        suggestedDurationSeconds: estimateDuration(enhancedText, line.slideType)})
enhancedLine(line, enhancedText) ==
    [text |-> enhancedText,
     suggestedDurationSeconds |-> estimateDuration(enhancedText, line.slideType)] @@ line

\* keptLine that runs the duration model on the original text
keptLineReestimated(line) ==
    [suggestedDurationSeconds |-> estimateDuration(line.text, line.slideType)] @@ line

\* catch: enhancedLines.push(line)
keptLine(line) == line

\* // Recalculate timings
RECURSIVE recalculate(_, _, _)
recalculate(lines, k, acc) ==
    IF k > Len(lines) THEN acc
    ELSE recalculate(lines, k + 1,
            [lines |-> Append(acc.lines, [startTimeSeconds |-> acc.currentTime] @@ lines[k]),
             currentTime |-> plus(acc.currentTime, lines[k].suggestedDurationSeconds)])

\* return {...script, lines: enhancedLines, totalDurationSeconds: currentTime}
enhancedScript(script, enhancedLines) ==
    LET result(acc) == [lines |-> acc.lines, totalDurationSeconds |-> acc.currentTime] @@ script
    IN result(recalculate(enhancedLines, 1, [lines |-> <<>>, currentTime |-> tenths(0)]))

\* scripts the client got from /api/generate-script
SpokenSlides == {s \in TimedSlides : s.type # "quiz"}

GeneratedScripts ==
    { generateVoiceoverScript(ReelOf(ss), "professional").script :
        ss \in UNION { [1..n -> SpokenSlides] : n \in 0..MaxScriptLines } }

\* a script whose durations and start times the client has edited
EditedScript ==
    [lessonTitle |-> <<"F","o","o","d"," ","V","o","c","a","b","u","l","a","r","y">>, totalDurationSeconds |-> tenths(70),
     lines |-> << [slideId |-> <<"w","6">>, slideNumber |-> 1, slideType |-> "reading",
                   text |-> <<"T","o","m"," ","e","a","t","s"," ","r","i","c","e"," ","a","n","d"," ","b","r","e","a","d"," ","d","a","i","l","y">>, pronunciationHints |-> <<>>,
                   suggestedDurationSeconds |-> tenths(50), startTimeSeconds |-> tenths(0)],
                  [slideId |-> <<"h","2">>, slideNumber |-> 2, slideType |-> "hook",
                   text |-> <<"R","e","a","d","y"," ","t","o"," ","m","a","s","t","e","r"," ","F","o","o","d"," ","n","o","w">>, pronunciationHints |-> <<>>,
                   suggestedDurationSeconds |-> tenths(20), startTimeSeconds |-> tenths(60)] >>]

EnhanceBodies ==
    { [script |-> sc, cefrLevel |-> <<"A","2">>] : sc \in GeneratedScripts \cup {EditedScript} }
    \cup { [script |-> EditedScript, cefrLevel |-> <<"A","2">>, tone |-> "fun"],
           [script |-> [lessonTitle |-> <<"F","o","o","d"," ","V","o","c","a","b","u","l","a","r","y">>], cefrLevel |-> <<"A","2">>],
           EmptyBody }

\* if (!script) return res.status(400)
EnhanceScriptMissing ==
    /\ enhance.phase = "request"
    /\ ~Has(enhance.req, "script")
    /\ enhance' = [phase |-> "done", req |-> enhance.req, calls |-> <<>>,
                   res |-> [status |-> 400, error |-> "Script data is required"]]
    /\ UNCHANGED <<slideVars, scriptVars, batch, imageReq, clientVars>>

\* the script the caller passed, as it is after the call: a line pushed in
\* the catch is the input's own object, and the recalculation assigns its
\* startTimeSeconds (line.startTimeSeconds = currentTime)
inputAfter(script, calls, recalculated) ==
    [script EXCEPT !.lines = [k \in 1..Len(script.lines) |->
        IF calls[k] = "error" THEN recalculated[k] ELSE script.lines[k]]]

\* what follows the loop body without another await: the next line's call,
\* or, past the last line, the recalculation, generateSRT and res.json
afterLine(e) ==
    IF Len(e.enhancedLines) < Len(e.req.script.lines) THEN e
    ELSE LET respond(script) ==
                [phase |-> "done", req |-> e.req, calls |-> e.calls,
                 input |-> inputAfter(e.req.script, e.calls, script.lines),
                 res |-> [status |-> 200,
                          json |-> [script |-> script,
                                    srtContent |-> generateSRT(script, 1)]]]
         IN respond(enhancedScript(e.req.script, e.enhancedLines))

\* enhanceScriptWithAI is entered: for (const line of script.lines)
EnhanceScriptStart ==
    /\ enhance.phase = "request"
    /\ Has(enhance.req, "script") /\ Has(enhance.req.script, "lines")
    /\ enhance' = afterLine([phase |-> "lines", req |-> enhance.req, calls |-> <<>>,
                             enhancedLines |-> <<>>])
    /\ UNCHANGED <<slideVars, scriptVars, batch, imageReq, clientVars>>

\* script.lines is not iterable: the TypeError reaches the route's catch
EnhanceScriptFailed ==
    /\ enhance.phase = "request"
    /\ Has(enhance.req, "script") /\ ~Has(enhance.req.script, "lines")
    /\ enhance' = [phase |-> "done", req |-> enhance.req, calls |-> <<>>,
                   res |-> [status |-> 500, error |-> "Failed to enhance script"]]
    /\ UNCHANGED <<slideVars, scriptVars, batch, imageReq, clientVars>>

\* the line the loop is at
enhanceAt == enhance.req.script.lines[Len(enhance.enhancedLines) + 1]

\* the completion answers with a text
EnhanceLineOk ==
    /\ enhance.phase = "lines"
    /\ \E content \in EnhancedTexts :
        enhance' = afterLine([enhance EXCEPT
            !.enhancedLines = Append(@, enhancedLine(enhanceAt, content)),
            !.calls = Append(@, "text")])
    /\ UNCHANGED <<slideVars, scriptVars, batch, imageReq, clientVars>>

\* response.choices[0]?.message?.content is empty or undefined: || line.text
EnhanceLineNoContent ==
    /\ enhance.phase = "lines"
    /\ enhance' = afterLine([enhance EXCEPT
            !.enhancedLines = Append(@, enhancedLine(enhanceAt, enhanceAt.text)),
            !.calls = Append(@, "no content")])
    /\ UNCHANGED <<slideVars, scriptVars, batch, imageReq, clientVars>>

\* the call rejects: catch (error)
EnhanceLineFailed ==
    /\ enhance.phase = "lines"
    /\ enhance' = afterLine([enhance EXCEPT
            !.enhancedLines = Append(@, keptLine(enhanceAt)),
            !.calls = Append(@, "error")])
    /\ UNCHANGED <<slideVars, scriptVars, batch, imageReq, clientVars>>

InitEnhance ==
    /\ engine = "routes"
    /\ body = EmptyBody
    /\ rng = 0
    /\ rngCalls = 0
    /\ retries = 0
    /\ responses = <<>>
    /\ scriptReq = NoScriptReq
    /\ scriptRes = <<>>
    /\ enhance \in { [phase |-> "request", req |-> b] : b \in EnhanceBodies }
    /\ batch = Idle /\ imageReq = Idle
    /\ page = FreshPage /\ uploads = <<>>

NextEnhance ==
    \/ EnhanceScriptMissing
    \/ EnhanceScriptStart
    \/ EnhanceScriptFailed
    \/ EnhanceLineOk
    \/ EnhanceLineNoContent
    \/ EnhanceLineFailed

SpecEnhance == InitEnhance /\ [][NextEnhance]_vars

----------------------------------------------------------------------------
(* The clients' generateImages: the reel page (unnamed/part_005) and the
   vocabulary page (client/src/pages/home.tsx).  Each loop iteration awaits
   the server; an iteration and what follows it up to the next await is one
   step.  apiRequest rejects when the request fails or is answered with an
   error status. *)

\* what the image routes answer with
Images == { <<"d","a","t","a",":","i","m","a","g","e","/","p","n","g",";","b","a","s","e","6","4",",","Q","Q","=","=">>, <<"d","a","t","a",":","i","m","a","g","e","/","p","n","g",";","b","a","s","e","6","4",",","Q","g","=","=">> }

\* what /api/generate-slide-prompt answers with
Prompts == { <<"A"," ","r","e","d"," ","a","p","p","l","e"," ","o","n"," ","a"," ","t","a","b","l","e",".">> }

\* the slide types /api/generate-slide-prompt has a case for
PromptTypes == {"title", "vocabulary", "grammar", "reading", "example", "outro"}

\* reels as /api/lesson-to-slides of server/routes.ts returns them
BatchLessons ==
    { FullLesson(ss) : ss \in {<<>>} \cup { <<sec>> : sec \in {r \in RichSections : r.type = <<"l","e","x","i","s">>} } }

BatchReels == { reelJson(l, lessonToSlides(l, 0).slides) : l \in BatchLessons }

\* the page in the preview step, as an upload of the lesson leaves it when
\* the rewrite request fails
PreviewPage(l) ==
    [FreshPage EXCEPT !.step = "preview", !.lesson = l,
                      !.reel = reelJson(l, lessonToSlides(l, 0).slides),
                      !.lessonContext = <<"E","S","L"," ","l","e","s","s","o","n"," ","a","b","o","u","t"," ","F","o","o","d"," ","f","o","r"," ","A","2"," ","l","e","a","r","n","e","r","s",".">>]

\* reel.slides.filter(s => s.slide.requiresImage)
slidesRequiringImages(reel) == SelectSeq(reel.slides, LAMBDA g : g.slide.requiresImage)

\* reel.slides.findIndex(s => s.slide.id === genSlide.slide.id)
findIndex(slides, id) ==
    CHOOSE i \in 1..Len(slides) :
        /\ slides[i].slide.id = id
        /\ \A j \in 1..(i - 1) : slides[j].slide.id # id

\* the toast at the end of the reel run
reelToast(completed, failed) ==
    IF failed > 0
    THEN [title |-> "Reel generated", created |-> completed - failed, failed |-> failed]
    ELSE [title |-> "Reel generated", created |-> completed]

\* completed++, then the next iteration or, past the last item,
\* setIsGenerating(false) and the toast
afterItem(b) ==
    IF b.completed + 1 < Len(b.items) THEN [b EXCEPT !.completed = @ + 1]
    ELSE [b EXCEPT !.completed = @ + 1, !.phase = "finished", !.isGenerating = FALSE]
         @@ [toast |-> reelToast(b.completed + 1, b.failed)]

\* catchItem that leaves the loop
catchItemBreak(b, outcome) ==
    [b EXCEPT !.failed = @ + 1, !.outcomes = Append(@, [kind |-> outcome]),
              !.completed = Len(b.items) - 1]

\* catch (error) { failed++; toast(...) }
catchItem(b, outcome) ==
    [b EXCEPT !.failed = @ + 1, !.outcomes = Append(@, [kind |-> outcome])]

\* the item the loop is at
batchItem == batch.items[batch.completed + 1]

\* the page after a step of generateImages: setIsGenerating and setStep at
\* its two ends, setReel({...reel, slides: updatedSlides}) when an image came
reelPage(p, b, imageCame) ==
    [p EXCEPT !.isGenerating = b.isGenerating,
              !.step = IF b.phase = "finished" THEN "results" ELSE "generating",
              !.reel = IF imageCame THEN b.reel ELSE @]

\* if (!reel) return
ReelImagesNoReel ==
    /\ batch.phase = "ready" /\ batch.page = "reel"
    /\ page.reel = Null
    /\ batch' = [phase |-> "returned", page |-> "reel", isGenerating |-> FALSE]
    /\ UNCHANGED <<slideVars, scriptVars, enhance, imageReq, clientVars>>

\* setIsGenerating(true) ... up to the first await; with no slide that
\* requires an image, up to the toast
ReelImagesStart ==
    /\ batch.phase \in {"ready", "finished"} /\ batch.page = "reel"
    /\ page.step = "preview" /\ page.reel # Null
    /\ LET start(items) ==
            IF items = <<>>
            THEN [phase |-> "finished", page |-> "reel", reel |-> page.reel,
                  first |-> page.reel, items |-> items,
                  updatedSlides |-> page.reel.slides, completed |-> 0, failed |-> 0,
                  isGenerating |-> FALSE, attempted |-> <<>>, outcomes |-> <<>>,
                  toast |-> reelToast(0, 0)]
            ELSE [phase |-> "running", page |-> "reel", reel |-> page.reel,
                  first |-> page.reel, items |-> items,
                  updatedSlides |-> page.reel.slides, completed |-> 0, failed |-> 0,
                  isGenerating |-> TRUE, attempted |-> <<items[1].slide.id>>,
                  outcomes |-> <<>>]
       IN batch' = start(slidesRequiringImages(page.reel))
    /\ page' = reelPage(page, batch', FALSE)
    /\ UNCHANGED <<slideVars, scriptVars, enhance, imageReq, uploads>>

\* the next item's prompt request goes out as the loop comes round
nextAttempt(b) ==
    IF b.phase = "running"
    THEN [b EXCEPT !.attempted = Append(@, b.items[b.completed + 1].slide.id)]
    ELSE b

\* the prompt request is rejected
ReelPromptFailed ==
    /\ batch.phase = "running" /\ batch.page = "reel"
    /\ batch' = nextAttempt(afterItem(catchItem(batch, "prompt failed")))
    /\ page' = reelPage(page, batch', FALSE)
    /\ UNCHANGED <<slideVars, scriptVars, enhance, imageReq, uploads>>

\* promptData.prompt is null: the slide type has no case in the route, or
\* the completion came back without content
ReelNoPrompt ==
    /\ batch.phase = "running" /\ batch.page = "reel"
    /\ batch' = nextAttempt(afterItem(
                    [batch EXCEPT !.outcomes = Append(@, [kind |-> "no prompt"])]))
    /\ page' = reelPage(page, batch', FALSE)
    /\ UNCHANGED <<slideVars, scriptVars, enhance, imageReq, uploads>>

\* the prompt arrives and the image request is rejected
ReelImageFailed ==
    /\ batch.phase = "running" /\ batch.page = "reel"
    /\ batchItem.slide.type \in PromptTypes
    /\ batch' = nextAttempt(afterItem(catchItem(batch, "image failed")))
    /\ page' = reelPage(page, batch', FALSE)
    /\ UNCHANGED <<slideVars, scriptVars, enhance, imageReq, uploads>>

\* updatedSlides[slideIndex] = {...}; setReel({...reel, slides: updatedSlides})
attachImage(b, slideIndex, imageData, prompt) ==
    LET attach(slides) ==
            [b EXCEPT !.updatedSlides = slides, !.reel = [slides |-> slides] @@ b.first,
                      !.outcomes = Append(@, [kind |-> "image", imageData |-> imageData])]
    IN attach([b.updatedSlides EXCEPT
                ![slideIndex] = [imageData |-> imageData, imagePrompt |-> prompt] @@ @])

\* the prompt and the image arrive
ReelImageOk ==
    /\ batch.phase = "running" /\ batch.page = "reel"
    /\ batchItem.slide.type \in PromptTypes
    /\ \E imageData \in Images, prompt \in Prompts :
        batch' = nextAttempt(afterItem(
                    attachImage(batch, findIndex(batch.first.slides, batchItem.slide.id),
                                imageData, prompt)))
    /\ page' = reelPage(page, batch', TRUE)
    /\ UNCHANGED <<slideVars, scriptVars, enhance, imageReq, uploads>>

\* smart prompts as /api/generate-smart-prompts returns them
SmartPrompt(word) ==
    [term |-> word.term, enhancedPrompt |-> <<"A"," ","p","i","c","t","u","r","e"," ","o","f"," ">> \o word.term,
     definition |-> word.definition, example |-> word.example]

SmartPromptLists ==
    UNION { [1..n -> {SmartPrompt(foodWords[1]), SmartPrompt(foodWords[2])}] : n \in 0..MaxPrompts }

\* if (smartPrompts.length === 0) return
VocabImagesNoPrompts ==
    /\ batch.phase = "ready" /\ batch.page = "vocab"
    /\ batch.smartPrompts = <<>>
    /\ batch' = [phase |-> "returned", page |-> "vocab", isGenerating |-> FALSE]
    /\ UNCHANGED <<slideVars, scriptVars, enhance, imageReq, clientVars>>

\* setIsGeneratingImages(true) ... up to the first await
VocabImagesStart ==
    /\ batch.phase = "ready" /\ batch.page = "vocab"
    /\ batch.smartPrompts # <<>>
    /\ batch' = [phase |-> "running", page |-> "vocab", smartPrompts |-> batch.smartPrompts,
                 images |-> <<>>, generatedImages |-> <<>>, failedCount |-> 0,
                 isGenerating |-> TRUE, attempted |-> <<batch.smartPrompts[1].term>>,
                 outcomes |-> <<>>]
    /\ UNCHANGED <<slideVars, scriptVars, enhance, imageReq, clientVars>>

\* the toast at the end of the vocabulary run
vocabToast(images, failedCount) ==
    IF Len(images) > 0
    THEN IF failedCount > 0
         THEN [title |-> "Images generated", created |-> Len(images), failed |-> failedCount]
         ELSE [title |-> "Images generated", created |-> Len(images)]
    ELSE [title |-> "Generation failed"]

\* the next iteration's request or, past the last prompt,
\* setIsGeneratingImages(false) and the toast
afterPrompt(b) ==
    IF Len(b.outcomes) < Len(b.smartPrompts)
    THEN [b EXCEPT !.attempted = Append(@, b.smartPrompts[Len(b.outcomes) + 1].term)]
    ELSE [b EXCEPT !.phase = "finished", !.isGenerating = FALSE]
         @@ [toast |-> vocabToast(b.images, b.failedCount)]

\* the prompt the loop is at
batchPrompt == batch.smartPrompts[Len(batch.outcomes) + 1]

\* images.push({...}); setGeneratedImages([...images])
VocabImageOk ==
    /\ batch.phase = "running" /\ batch.page = "vocab"
    /\ \E imageData \in Images :
        LET push(images) ==
                afterPrompt([batch EXCEPT
                    !.images = images, !.generatedImages = images,
                    !.outcomes = Append(@, [kind |-> "image", imageData |-> imageData])])
        IN batch' = push(Append(batch.images,
                            [term |-> batchPrompt.term, prompt |-> batchPrompt.enhancedPrompt,
                             imageData |-> imageData, definition |-> batchPrompt.definition,
                             example |-> batchPrompt.example]))
    /\ UNCHANGED <<slideVars, scriptVars, enhance, imageReq, clientVars>>

\* catch (error) { failedCount++; toast(...) }
VocabImageFailed ==
    /\ batch.phase = "running" /\ batch.page = "vocab"
    /\ batch' = afterPrompt([batch EXCEPT
                    !.failedCount = @ + 1,
                    !.outcomes = Append(@, [kind |-> "image failed"])])
    /\ UNCHANGED <<slideVars, scriptVars, enhance, imageReq, clientVars>>

InitBatch ==
    /\ engine = "routes"
    /\ body = EmptyBody
    /\ rng = 0
    /\ rngCalls = 0
    /\ retries = 0
    /\ responses = <<>>
    /\ scriptReq = NoScriptReq
    /\ scriptRes = <<>>
    /\ enhance = Idle
    /\ batch \in { [phase |-> "ready", page |-> "reel"] }
                \cup { [phase |-> "ready", page |-> "vocab", smartPrompts |-> ps] :
                            ps \in SmartPromptLists }
    /\ imageReq = Idle
    /\ page \in IF batch.page = "reel"
                THEN { PreviewPage(l) : l \in BatchLessons } \cup { FreshPage }
                ELSE { FreshPage }
    /\ uploads = <<>>

NextBatch ==
    \/ ReelImagesNoReel
    \/ ReelImagesStart
    \/ ReelPromptFailed
    \/ ReelNoPrompt
    \/ ReelImageFailed
    \/ ReelImageOk
    \/ VocabImagesNoPrompts
    \/ VocabImagesStart
    \/ VocabImageOk
    \/ VocabImageFailed

SpecBatch == InitBatch /\ [][NextBatch]_vars

----------------------------------------------------------------------------
(* POST /api/generate-slide-image.  imageReq follows one request through the
   awaits of its retry loop: the backoff delay, predictions.create, the
   polling of predictions.get, and the fetch of the image.  started counts
   the loop iterations entered, log holds how each iteration ended, sent the
   responses written. *)

maxRetries == 5

ImageBodies ==
    { [prompt |-> <<"A"," ","r","e","d"," ","a","p","p","l","e"," ","o","n"," ","a"," ","t","a","b","l","e",".">>, slideId |-> <<"v","1">>],
      [prompt |-> <<"A"," ","c","a","f","e",".">>, slideId |-> <<"t","1">>],
      [prompt |-> <<>>, slideId |-> <<"v","1">>],
      [slideId |-> <<"v","1">>],
      EmptyBody }

\* Math.min(10000 * Math.pow(1.5, attempt), 30000)
delay(attempt) == Min((10000 * 3^attempt) \div 2^attempt, 30000)

\* a response is written and the handler returns
respondImage(r, ended, response) ==
    [phase |-> "done", req |-> r.req, started |-> r.started,
     log |-> Append(r.log, ended), sent |-> Append(r.sent, response)]

\* catchAttempt that retries after any error
catchAttemptRetryAll(r, rateLimited) ==
    LET ended == IF rateLimited THEN "429" ELSE "error"
    IN IF r.attempt + 1 < maxRetries
       THEN [phase |-> "waiting", req |-> r.req, attempt |-> r.attempt + 1,
             started |-> r.started + 1, log |-> Append(r.log, ended), sent |-> r.sent,
             delay |-> delay(r.attempt + 1)]
       ELSE respondImage(r, ended,
                [status |-> 500, error |-> "Failed to generate image after retries"])

\* catch (error): continue on a rate limit, else rethrow to the outer catch;
\* past the last attempt the loop is left and the retries are exhausted
catchAttempt(r, rateLimited) ==
    IF ~rateLimited
    THEN respondImage(r, "error", [status |-> 500, error |-> "Failed to generate image"])
    ELSE IF r.attempt + 1 < maxRetries
    THEN [phase |-> "waiting", req |-> r.req, attempt |-> r.attempt + 1,
          started |-> r.started + 1, log |-> Append(r.log, "429"), sent |-> r.sent,
          delay |-> delay(r.attempt + 1)]
    ELSE respondImage(r, "429",
            [status |-> 500, error |-> "Failed to generate image after retries"])

\* if (!prompt) return res.status(400)
ImagePromptMissing ==
    /\ imageReq.phase = "request"
    /\ ~(Has(imageReq.req, "prompt") /\ imageReq.req.prompt # <<>>)
    /\ imageReq' = [phase |-> "done", req |-> imageReq.req, started |-> 0, log |-> <<>>,
                    sent |-> <<[status |-> 400, error |-> "Prompt is required"]>>]
    /\ UNCHANGED <<slideVars, scriptVars, enhance, batch, clientVars>>

\* attempt 0: predictions.create is called
ImageStart ==
    /\ imageReq.phase = "request"
    /\ Has(imageReq.req, "prompt") /\ imageReq.req.prompt # <<>>
    /\ imageReq' = [phase |-> "creating", req |-> imageReq.req, attempt |-> 0,
                    started |-> 1, log |-> <<>>, sent |-> <<>>]
    /\ UNCHANGED <<slideVars, scriptVars, enhance, batch, clientVars>>

\* the backoff delay is over: predictions.create is called
ImageDelayOver ==
    /\ imageReq.phase = "waiting"
    /\ imageReq' = [phase |-> "creating", req |-> imageReq.req, attempt |-> imageReq.attempt,
                    started |-> imageReq.started, log |-> imageReq.log, sent |-> imageReq.sent]
    /\ UNCHANGED <<slideVars, scriptVars, enhance, batch, clientVars>>

\* the prediction is created: predictions.get is called
ImageCreated ==
    /\ imageReq.phase = "creating"
    /\ imageReq' = [phase |-> "polling", req |-> imageReq.req, attempt |-> imageReq.attempt,
                    started |-> imageReq.started, log |-> imageReq.log, sent |-> imageReq.sent,
                    polls |-> 1]
    /\ UNCHANGED <<slideVars, scriptVars, enhance, batch, clientVars>>

\* the prediction was seen with the status "canceled", which is final
Canceled == Has(imageReq, "status") /\ imageReq.status = "canceled"

\* completedPrediction.status === "canceled": the while condition holds, and
\* it holds again after every later predictions.get, which returns the same
\* prediction; those iterations leave the request where it is
ImagePredictionCanceled ==
    /\ imageReq.phase = "polling" /\ ~Canceled
    /\ imageReq' = [status |-> "canceled"] @@ imageReq
    /\ UNCHANGED <<slideVars, scriptVars, enhance, batch, clientVars>>

\* status is neither succeeded nor failed: wait a second and ask again
ImagePollPending ==
    /\ imageReq.phase = "polling" /\ ~Canceled
    /\ imageReq.polls < MaxPolls
    /\ imageReq' = [imageReq EXCEPT !.polls = @ + 1]
    /\ UNCHANGED <<slideVars, scriptVars, enhance, batch, clientVars>>

\* completedPrediction.status === "failed"
ImagePredictionFailed ==
    /\ imageReq.phase = "polling" /\ ~Canceled
    /\ imageReq' = respondImage(imageReq, "failed",
                        [status |-> 500, error |-> "Image generation failed"])
    /\ UNCHANGED <<slideVars, scriptVars, enhance, batch, clientVars>>

\* succeeded with an output that is neither a string nor a non-empty array
ImageOutputUnexpected ==
    /\ imageReq.phase = "polling" /\ ~Canceled
    /\ imageReq' = respondImage(imageReq, "unexpected",
                        [status |-> 500, error |-> "Unexpected image output format"])
    /\ UNCHANGED <<slideVars, scriptVars, enhance, batch, clientVars>>

\* succeeded with a url or a list of urls: the image is fetched
ImagePredictionSucceeded ==
    /\ imageReq.phase = "polling" /\ ~Canceled
    /\ \E output \in { [t |-> "string", url |-> <<"u","1">>], [t |-> "array", urls |-> <<<<"u","2">>, <<"u","1">>>>] } :
        imageReq' = [phase |-> "fetching", req |-> imageReq.req, attempt |-> imageReq.attempt,
                     started |-> imageReq.started, log |-> imageReq.log, sent |-> imageReq.sent,
                     imageUrl |-> IF output.t = "string" THEN output.url ELSE output.urls[1]]
    /\ UNCHANGED <<slideVars, scriptVars, enhance, batch, clientVars>>

\* return res.json({ imageData, slideId, prompt })
ImageFetched ==
    /\ imageReq.phase = "fetching"
    /\ \E imageData \in Images :
        imageReq' = respondImage(imageReq, "image",
                        [status |-> 200,
                         json |-> [imageData |-> imageData, prompt |-> imageReq.req.prompt]
                                  @@ Opt(imageReq.req, "slideId", "slideId")])
    /\ UNCHANGED <<slideVars, scriptVars, enhance, batch, clientVars>>

\* an awaited call rejects with a 429
ImageRateLimited ==
    /\ imageReq.phase \in {"creating", "polling", "fetching"}
    /\ imageReq' = catchAttempt(imageReq, TRUE)
    /\ UNCHANGED <<slideVars, scriptVars, enhance, batch, clientVars>>

\* an awaited call rejects with another error
ImageOtherError ==
    /\ imageReq.phase \in {"creating", "polling", "fetching"}
    /\ imageReq' = catchAttempt(imageReq, FALSE)
    /\ UNCHANGED <<slideVars, scriptVars, enhance, batch, clientVars>>

InitImage ==
    /\ engine = "routes"
    /\ body = EmptyBody
    /\ rng = 0
    /\ rngCalls = 0
    /\ retries = 0
    /\ responses = <<>>
    /\ scriptReq = NoScriptReq
    /\ scriptRes = <<>>
    /\ enhance = Idle /\ batch = Idle
    /\ imageReq \in { [phase |-> "request", req |-> b] : b \in ImageBodies }
    /\ page = FreshPage /\ uploads = <<>>

NextImage ==
    \/ ImagePromptMissing
    \/ ImageStart
    \/ ImageDelayOver
    \/ ImageCreated
    \/ ImagePollPending
    \/ ImagePredictionCanceled
    \/ ImagePredictionFailed
    \/ ImageOutputUnexpected
    \/ ImagePredictionSucceeded
    \/ ImageFetched
    \/ ImageRateLimited
    \/ ImageOtherError

SpecImage == InitImage /\ [][NextImage]_vars

\* the steps in which the awaited call or timer returns; a call that returns
\* lets the handler run to its next await
ImageReturns ==
    \/ ImagePromptMissing
    \/ ImageStart
    \/ ImageDelayOver
    \/ ImageCreated
    \/ ImagePollPending
    \/ ImagePredictionCanceled
    \/ ImagePredictionFailed
    \/ ImageOutputUnexpected
    \/ ImagePredictionSucceeded
    \/ ImageFetched

\* every external call returns: the handler is never left waiting at an
\* await whose call could return
SpecImageFair == SpecImage /\ WF_vars(ImageReturns)

----------------------------------------------------------------------------
(* The reel page (unnamed/part_005): handleFileUpload.  uploads holds one
   record per call, in the order the calls were made; a call moves from one
   await to the next in one step, and calls interleave at their awaits.  The
   requests are answered by server/routes.ts. *)

\* s.endsWith(suffix)
endsWith(s, suffix) ==
    Len(s) >= Len(suffix) /\ SubSeq(s, Len(s) - Len(suffix) + 1, Len(s)) = suffix

\* title.replace(/^Reading Text:\s*/i, "")
RECURSIVE dropWhitespace(_)
dropWhitespace(s) ==
    IF s # <<>> /\ Head(s) \in Whitespace THEN dropWhitespace(Tail(s)) ELSE s

withoutReadingText(title) ==
    IF toLowerCase(SubSeq(title, 1, Min(13, Len(title)))) = <<"r","e","a","d","i","n","g"," ","t","e","x","t",":">>
    THEN dropWhitespace(SubSeq(title, 14, Len(title)))
    ELSE title

\* the number n / 2 where n is odd: sequence + 0.5 is not a whole number
Halves(n) == [halves |-> n]

\* files the user may drop
ReadingSection == CHOOSE sec \in RichSections : sec.title = <<"R","e","a","d","i","n","g"," ","T","e","x","t",":"," "," ","L","u","n","c","h">>

LessonFile(name, lesson) == [name |-> name, text |-> [json |-> TRUE, data |-> lesson]]

lunchFile ==
    LessonFile(<<"l","u","n","c","h",".","j","s","o","n">>,
        FullLesson(<<ReadingSection,
                     CHOOSE sec \in RichSections : sec.title = <<"R","e","a","d","i","n","g"," ","A","s","s","e","s","s","m","e","n","t">>>>))

travelFile ==
    LessonFile(<<"t","r","a","v","e","l",".","j","s","o","n">>,
        [id |-> 8, title |-> <<"T","r","a","v","e","l">>, topic |-> <<"T","r","a","v","e","l">>, cefrLevel |-> <<"B","1">>,
         content |-> [title |-> <<"T","r","a","v","e","l">>, sections |-> <<>>]])

goalsFile ==
    LessonFile(<<"g","o","a","l","s",".","j","s","o","n">>,
        FullLesson(<<CHOOSE sec \in RichSections : sec.title = <<"L","e","s","s","o","n"," ","O","b","j","e","c","t","i","v","e","s">>>>))

brokenFile == [name |-> <<"b","r","o","k","e","n",".","j","s","o","n">>, text |-> [json |-> FALSE]]

notesFile == [name |-> <<"n","o","t","e","s",".","t","x","t">>, text |-> [json |-> FALSE]]

UploadFiles == { lunchFile, travelFile, brokenFile, notesFile }

\* the files dropped on the page when it is driven through all its steps
PageFiles == { goalsFile, travelFile, brokenFile, notesFile }

\* Math.random().toString(36).substring(2, 9) in the browser
ClientIds == {101, 102}

\* what /api/rewrite-reading-text answers with
Rewrites ==
    { [paragraph1 |-> <<"T","o","m"," ","h","a","s"," ","l","u","n","c","h"," ","a","t"," ","n","o","o","n",".">>, paragraph2 |-> <<"H","e"," ","e","a","t","s"," ","r","i","c","e"," ","a","n","d"," ","b","r","e","a","d",".">>,
       vocabularyUsed |-> <<"r","i","c","e",","," ","b","r","e","a","d">>] }

\* what /api/generate-lesson-context answers with
contextOf(lesson) ==
    <<"E","S","L"," ","l","e","s","s","o","n"," ","a","b","o","u","t"," ">> \o Template(lesson, "topic") \o <<" ","f","o","r"," ">>
        \o Template(lesson, "cefrLevel") \o <<" ","l","e","a","r","n","e","r","s",".">>

\* reelData.slides.findIndex(s => s.slide.type === "reading"), 0 for -1
readingIndexOf(slides) ==
    LET found == {i \in 1..Len(slides) : slides[i].slide.type = "reading"}
    IN IF found = {} THEN 0 ELSE CHOOSE i \in found : \A j \in found : i <= j

\* one of the two slides that replace the reading slide
readingPart(original, id, part, sequence, content) ==
    [slide |-> [id |-> id, type |-> "reading", sequence |-> sequence, requiresImage |-> TRUE,
                title |-> (LET baseTitle == IF Has(original, "title")
                                            THEN withoutReadingText(original.title) ELSE <<>>
                           IN (IF baseTitle # <<>> THEN baseTitle ELSE <<"R","e","a","d","i","n","g">>)
                              \o <<" ","(">> \o toString(part) \o <<"/","2",")">>),
                part |-> part, totalParts |-> 2]
               @@ Opt(content, IF part = 1 THEN "paragraph1" ELSE "paragraph2", "content")]

\* splitReading that numbers the second part sequence + 1
splitReadingWholeStep(reelData, readingData, id1, id2) ==
    LET at(readingIndex) ==
            IF readingIndex = 0 THEN reelData
            ELSE LET original == reelData.slides[readingIndex].slide
                     spliced == SubSeq(reelData.slides, 1, readingIndex - 1)
                                \o << readingPart(original, id1, 1, original.sequence, readingData),
                                       readingPart(original, id2, 2,
                                                   Halves(2 * original.sequence + 2), readingData) >>
                                \o SubSeq(reelData.slides, readingIndex + 1, Len(reelData.slides))
                 IN [reelData EXCEPT !.slides = spliced, !.totalSlides = Len(spliced)]
    IN at(readingIndexOf(reelData.slides))

\* if (readingIndex !== -1) { ...; reelData.slides.splice(readingIndex, 1, reading1, reading2);
\* reelData.totalSlides = reelData.slides.length }
splitReading(reelData, readingData, id1, id2) ==
    LET at(readingIndex) ==
            IF readingIndex = 0 THEN reelData
            ELSE LET original == reelData.slides[readingIndex].slide
                     spliced == SubSeq(reelData.slides, 1, readingIndex - 1)
                                \o << readingPart(original, id1, 1, original.sequence, readingData),
                                       readingPart(original, id2, 2,
                                                   Halves(2 * original.sequence + 1), readingData) >>
                                \o SubSeq(reelData.slides, readingIndex + 1, Len(reelData.slides))
                 IN [reelData EXCEPT !.slides = spliced, !.totalSlides = Len(spliced)]
    IN at(readingIndexOf(reelData.slides))

\* catch (error) { toast } finally { setIsLoading(false) }
uploadFailed(call, at) == [pc |-> "done", file |-> call.file, outcome |-> at]

\* the call that is at the await named pc
Awaiting(u, pc) == u \in 1..Len(uploads) /\ uploads[u].pc = pc

\* if (!file.name.endsWith(".json")) { toast; return }
HandleFileUploadRejectedOf(files) ==
    /\ page.step = "upload" /\ Len(uploads) < MaxUploads
    /\ \E file \in files :
        /\ ~endsWith(file.name, <<".","j","s","o","n">>)
        /\ uploads' = Append(uploads, [pc |-> "done", file |-> file, outcome |-> "invalid file type"])
    /\ UNCHANGED <<slideVars, scriptVars, enhance, batch, imageReq, page>>

\* setIsLoading(true); await file.text()
HandleFileUploadOf(files) ==
    /\ page.step = "upload" /\ Len(uploads) < MaxUploads
    /\ \E file \in files :
        /\ endsWith(file.name, <<".","j","s","o","n">>)
        /\ uploads' = Append(uploads, [pc |-> "text", file |-> file])
    /\ page' = [page EXCEPT !.isLoading = TRUE]
    /\ UNCHANGED <<slideVars, scriptVars, enhance, batch, imageReq>>

HandleFileUploadRejected == HandleFileUploadRejectedOf(UploadFiles)

HandleFileUpload == HandleFileUploadOf(UploadFiles)

\* JSON.parse(text); setLesson(data); the lesson is posted to /api/lesson-to-slides
UploadParsed ==
    \E u \in 1..Len(uploads) :
        /\ Awaiting(u, "text") /\ uploads[u].file.text.json
        /\ uploads' = [uploads EXCEPT ![u] = [pc |-> "slides", file |-> @.file,
                                              data |-> @.file.text.data]]
        /\ page' = [page EXCEPT !.lesson = uploads[u].file.text.data]
        /\ UNCHANGED <<slideVars, scriptVars, enhance, batch, imageReq>>

\* JSON.parse throws
UploadParseFailed ==
    \E u \in 1..Len(uploads) :
        /\ Awaiting(u, "text") /\ ~uploads[u].file.text.json
        /\ uploads' = [uploads EXCEPT ![u] = uploadFailed(@, "text")]
        /\ page' = [page EXCEPT !.isLoading = FALSE]
        /\ UNCHANGED <<slideVars, scriptVars, enhance, batch, imageReq>>

\* reelData = await slidesResponse.json(); the lesson is posted to /api/rewrite-reading-text
UploadSlides ==
    \E u \in 1..Len(uploads) :
        /\ Awaiting(u, "slides")
        /\ LET answered(r) ==
                /\ ~r.threw
                /\ uploads' = [uploads EXCEPT ![u] =
                        [pc |-> "rewrite", file |-> @.file, data |-> @.data,
                         assembled |-> reelJson(uploads[u].data, r.slides),
                         reelData |-> reelJson(uploads[u].data, r.slides)]]
           IN answered(lessonToSlides(uploads[u].data, 0))
        /\ UNCHANGED <<slideVars, scriptVars, enhance, batch, imageReq, page>>

\* the request to /api/lesson-to-slides is rejected
UploadSlidesFailed ==
    \E u \in 1..Len(uploads) :
        /\ Awaiting(u, "slides")
        /\ uploads' = [uploads EXCEPT ![u] = uploadFailed(@, "slides")]
        /\ page' = [page EXCEPT !.isLoading = FALSE]
        /\ UNCHANGED <<slideVars, scriptVars, enhance, batch, imageReq>>

\* the rewrite arrives: the reading slide is split; setReel(reelData); the
\* lesson is posted to /api/generate-lesson-context
UploadRewritten ==
    \E u \in 1..Len(uploads) :
        /\ Awaiting(u, "rewrite")
        /\ \E readingData \in Rewrites, id1 \in ClientIds, id2 \in ClientIds :
            LET set(reelData) ==
                    /\ uploads' = [uploads EXCEPT ![u] =
                            [pc |-> "context", file |-> @.file, data |-> @.data,
                             assembled |-> @.assembled, reelData |-> reelData,
                             rewrite |-> "done"]]
                    /\ page' = [page EXCEPT !.reel = reelData]
            IN set(splitReading(uploads[u].reelData, readingData, id1, id2))
        /\ UNCHANGED <<slideVars, scriptVars, enhance, batch, imageReq>>

\* catch (readingError): setReel(reelData) with the reel as it came
UploadRewriteFailed ==
    \E u \in 1..Len(uploads) :
        /\ Awaiting(u, "rewrite")
        /\ uploads' = [uploads EXCEPT ![u] =
                [pc |-> "context", file |-> @.file, data |-> @.data,
                 assembled |-> @.assembled, reelData |-> @.reelData, rewrite |-> "failed"]]
        /\ page' = [page EXCEPT !.reel = uploads[u].reelData]
        /\ UNCHANGED <<slideVars, scriptVars, enhance, batch, imageReq>>

\* setLessonContext(contextData.context); setStep("preview"); setIsLoading(false)
UploadContext ==
    \E u \in 1..Len(uploads) :
        /\ Awaiting(u, "context")
        /\ uploads' = [uploads EXCEPT ![u] =
                [pc |-> "done", file |-> @.file, data |-> @.data, assembled |-> @.assembled,
                 reelData |-> @.reelData, rewrite |-> @.rewrite, outcome |-> "loaded"]]
        /\ page' = [page EXCEPT !.lessonContext = contextOf(uploads[u].data),
                                !.step = "preview", !.isLoading = FALSE]
        /\ UNCHANGED <<slideVars, scriptVars, enhance, batch, imageReq>>

\* the request to /api/generate-lesson-context is rejected
UploadContextFailed ==
    \E u \in 1..Len(uploads) :
        /\ Awaiting(u, "context")
        /\ uploads' = [uploads EXCEPT ![u] =
                [pc |-> "done", file |-> @.file, data |-> @.data, assembled |-> @.assembled,
                 reelData |-> @.reelData, rewrite |-> @.rewrite, outcome |-> "context"]]
        /\ page' = [page EXCEPT !.isLoading = FALSE]
        /\ UNCHANGED <<slideVars, scriptVars, enhance, batch, imageReq>>

InitUpload ==
    /\ engine = "routes"
    /\ body = EmptyBody
    /\ rng = 0
    /\ rngCalls = 0
    /\ retries = 0
    /\ responses = <<>>
    /\ scriptReq = NoScriptReq
    /\ scriptRes = <<>>
    /\ enhance = Idle /\ batch = Idle /\ imageReq = Idle
    /\ page = FreshPage /\ uploads = <<>>

NextUpload ==
    \/ HandleFileUploadRejected
    \/ HandleFileUpload
    \/ UploadParsed
    \/ UploadParseFailed
    \/ UploadSlides
    \/ UploadSlidesFailed
    \/ UploadRewritten
    \/ UploadRewriteFailed
    \/ UploadContext
    \/ UploadContextFailed

SpecUpload == InitUpload /\ [][NextUpload]_vars

----------------------------------------------------------------------------
(* The reel page as the user drives it: uploads, slide selection, prev/next,
   image generation and start over, with the handlers' awaits interleaving. *)

\* the block of the current step is on screen: the preview and results
\* blocks need a reel, and they read reel.slides[currentSlideIndex].slide,
\* which throws while the page is rendered when the index has no slide
Shown(step) ==
    /\ page.step = step
    /\ page.reel # Null
    /\ page.currentSlideIndex < Len(page.reel.slides)

\* onClick={() => setCurrentSlideIndex(index)} on an entry of the slide list
SelectSlide ==
    /\ Shown("preview") \/ Shown("results")
    /\ \E index \in 0..(Len(page.reel.slides) - 1) :
        page' = [page EXCEPT !.currentSlideIndex = index]
    /\ UNCHANGED <<slideVars, scriptVars, enhance, batch, imageReq, uploads>>

\* navigateSlide(direction)
navigateSlide(p, direction) ==
    IF p.reel = Null THEN p
    ELSE IF direction = "prev" /\ p.currentSlideIndex > 0
    THEN [p EXCEPT !.currentSlideIndex = @ - 1]
    ELSE IF direction = "next" /\ p.currentSlideIndex < Len(p.reel.slides) - 1
    THEN [p EXCEPT !.currentSlideIndex = @ + 1]
    ELSE p

NavigateSlide ==
    /\ Shown("preview") \/ Shown("results")
    /\ \E direction \in {"prev", "next"} : page' = navigateSlide(page, direction)
    /\ UNCHANGED <<slideVars, scriptVars, enhance, batch, imageReq, uploads>>

\* the start-over button of the results block
StartOver ==
    /\ Shown("results")
    /\ page' = [page EXCEPT !.step = "upload", !.lesson = Null, !.reel = Null,
                            !.currentSlideIndex = 0]
    /\ UNCHANGED <<slideVars, scriptVars, enhance, batch, imageReq, uploads>>

InitPage ==
    /\ engine = "routes"
    /\ body = EmptyBody
    /\ rng = 0
    /\ rngCalls = 0
    /\ retries = 0
    /\ responses = <<>>
    /\ scriptReq = NoScriptReq
    /\ scriptRes = <<>>
    /\ enhance = Idle /\ imageReq = Idle
    /\ batch = [phase |-> "ready", page |-> "reel"]
    /\ page = FreshPage /\ uploads = <<>>

NextPage ==
    \/ HandleFileUploadRejectedOf(PageFiles)
    \/ HandleFileUploadOf(PageFiles)
    \/ UploadParsed
    \/ UploadParseFailed
    \/ UploadSlides
    \/ UploadSlidesFailed
    \/ UploadRewritten
    \/ UploadRewriteFailed
    \/ UploadContext
    \/ UploadContextFailed
    \/ SelectSlide
    \/ NavigateSlide
    \/ ReelImagesStart
    \/ ReelPromptFailed
    \/ ReelNoPrompt
    \/ ReelImageFailed
    \/ ReelImageOk
    \/ StartOver

SpecPage == InitPage /\ [][NextPage]_vars

----------------------------------------------------------------------------
(* Observations the properties are stated over *)

ValidBody == Has(body, "lesson") /\ hasTitleAndSections(body.lesson)

\* the slide list of the k-th response, when it is a 200
SlidesOf(k) ==
    [i \in 1..Len(responses[k].json.slides) |-> responses[k].json.slides[i].slide]

OkResponses == {k \in 1..Len(responses) : responses[k].status = 200}

\* positions (1-based, increasing) of the slides of type t
PositionsOf(slides, t) ==
    SelectSeq([i \in 1..Len(slides) |-> i], LAMBDA i : slides[i].type = t)

TypesOf(slides) == [i \in 1..Len(slides) |-> slides[i].type]

\* the words of the vocabulary-classified sections from section i on, in
\* input order, each with the index of its section
RECURSIVE WordsFrom(_, _)
WordsFrom(sections, i) ==
    IF i > Len(sections) THEN <<>>
    ELSE (IF classifySection(sections[i]) = "vocabulary" /\ Has(sections[i], "words")
          THEN [k \in 1..Len(sections[i].words) |-> [sec |-> i, word |-> sections[i].words[k]]]
          ELSE <<>>)
         \o WordsFrom(sections, i + 1)

VocabularyAsInput(slides, sections) ==
    LET pos == PositionsOf(slides, "vocabulary")
        exp == WordsFrom(sections, 1)
    IN  /\ Len(pos) = Len(exp)
        /\ \A k \in 1..Len(exp) :
            LET sl == slides[pos[k]]
                w == exp[k].word
            IN /\ sl.term = w.term /\ sl.partOfSpeech = w.partOfSpeech
               /\ sl.definition = w.definition /\ sl.example = w.example
               /\ sl.requiresImage = TRUE
        /\ \A k \in 1..(Len(exp) - 1) :
            exp[k].sec = exp[k + 1].sec => pos[k + 1] = pos[k] + 1

\* C2: every vocabulary-classified section with a word list of N words yields
\* exactly N vocabulary slides, consecutive, in the order of the words, each
\* carrying the word's term/partOfSpeech/definition/example and requiresImage.
C2_VocabularySlides ==
    \A k \in OkResponses : VocabularyAsInput(SlidesOf(k), body.lesson.content.sections)

\* C2 witness: a 200 response for a lesson with a vocabulary section of four
\* words and another of one word.
C2_Witness ==
    /\ OkResponses # {}
    /\ \E i, j \in 1..Len(body.lesson.content.sections) :
        LET ss == body.lesson.content.sections
        IN /\ classifySection(ss[i]) = "vocabulary" /\ Has(ss[i], "words") /\ Len(ss[i].words) = 4
           /\ classifySection(ss[j]) = "vocabulary" /\ Has(ss[j], "words") /\ Len(ss[j].words) = 1

\* the questions (capped at five per section) of the quiz-classified sections
RECURSIVE QuestionsFrom(_, _)
QuestionsFrom(sections, i) ==
    IF i > Len(sections) THEN <<>>
    ELSE (IF classifySection(sections[i]) = "quiz" /\ Has(sections[i], "questions")
          THEN LET n == Len(sections[i].questions)
                   m == IF n < 5 THEN n ELSE 5
               IN [k \in 1..m |-> [sec |-> i, number |-> k, total |-> m,
                                   q |-> sections[i].questions[k]]]
          ELSE <<>>)
         \o QuestionsFrom(sections, i + 1)

QuizAsInput(slides, sections) ==
    LET pos == PositionsOf(slides, "quiz")
        exp == QuestionsFrom(sections, 1)
    IN  /\ Len(pos) = Len(exp)
        /\ \A k \in 1..Len(exp) :
            LET sl == slides[pos[k]]
            IN /\ sl.questionNumber = exp[k].number
               /\ sl.totalQuestions = exp[k].total
               /\ exp[k].q.t = "string" => sl.question = exp[k].q.s
               /\ (exp[k].q.t = "object" /\ Has(exp[k].q.o, "question"))
                    => sl.question = exp[k].q.o.question

\* C3: a quiz-classified section with n questions yields exactly min(n, 5)
\* quiz slides, for the first min(n, 5) questions in order, numbered
\* 1..min(n, 5), each with totalQuestions = min(n, 5).
C3_QuizSlides ==
    \A k \in OkResponses : QuizAsInput(SlidesOf(k), body.lesson.content.sections)

\* C3 witness: a 200 response for a lesson with a quiz section of seven
\* questions, answered with five quiz slides.
C3_Witness ==
    /\ OkResponses # {}
    /\ \E i \in 1..Len(body.lesson.content.sections) :
        LET sec == body.lesson.content.sections[i]
        IN classifySection(sec) = "quiz" /\ Has(sec, "questions") /\ Len(sec.questions) = 7
    /\ \E k \in OkResponses : Len(PositionsOf(SlidesOf(k), "quiz")) = 5

SummaryAsVocabulary(slides) ==
    LET vocab == PositionsOf(slides, "vocabulary")
        summ == PositionsOf(slides, "summary")
        V == Len(vocab)
        n == IF V < 6 THEN V ELSE 6
    IN  /\ (Len(summ) >= 1) <=> (V >= 1)
        /\ Len(summ) <= 1
        /\ Len(summ) = 1 =>
            /\ summ[1] = Len(slides) - 1
            /\ slides[Len(slides)].type = "outro"
            /\ \A i \in 1..(summ[1] - 1) : slides[i].type \notin {"summary", "outro"}
            /\ slides[summ[1]].keyPoints = [i \in 1..n |-> slides[vocab[i]].term]

\* C4: there is a summary slide iff there is a vocabulary slide; it is unique,
\* follows every section-derived slide, directly precedes the outro, and its
\* keyPoints are the terms of the first min(6, V) vocabulary slides.
C4_Summary ==
    \A k \in OkResponses : SummaryAsVocabulary(SlidesOf(k))

\* C4 witness: a response with more than six vocabulary slides and a summary.
C4_Witness ==
    \E k \in OkResponses :
        /\ Len(PositionsOf(SlidesOf(k), "vocabulary")) > 6
        /\ Len(PositionsOf(SlidesOf(k), "summary")) = 1


\* C5: for a lesson whose sections list is empty the assembler returns the
\* title slide, the hook slide in the build that has one, and the outro slide,
\* and nothing else.
C5_EmptyLesson ==
    (ValidBody /\ body.lesson.content.sections = <<>>) =>
        \A k \in 1..Len(responses) :
            /\ responses[k].status = 200
            /\ TypesOf(SlidesOf(k)) =
                 IF engine = "routes" THEN <<"title", "hook", "outro">>
                 ELSE <<"title", "outro">>
            /\ responses[k].json.totalSlides = Len(SlidesOf(k))

\* C5 witness: the build without the hook slide has answered a lesson with an
\* empty sections list.
C5_Witness ==
    /\ ValidBody /\ body.lesson.content.sections = <<>>
    /\ engine = "part_003"
    /\ Len(responses) > 0

WithoutId(slide) == [f \in (DOMAIN slide) \ {"id"} |-> slide[f]]

WithoutIds(slides) == [i \in 1..Len(slides) |-> WithoutId(slides[i])]

IdsOf(slides) == [i \in 1..Len(slides) |-> slides[i].id]

\* C6: two runs of lessonToSlides on the same lesson give slide lists of the
\* same length that agree position by position in everything but the id.
C6_SameButIds ==
    \A j, k \in OkResponses : WithoutIds(SlidesOf(j)) = WithoutIds(SlidesOf(k))

\* C6 witness: two runs on a lesson with sections whose identifiers differ.
C6_Witness ==
    /\ ValidBody /\ Len(body.lesson.content.sections) = 2
    /\ \E j, k \in OkResponses : IdsOf(SlidesOf(j)) # IdsOf(SlidesOf(k))

\* C7: within one call the ids of the emitted slides are pairwise distinct,
\* so that reel.slides.findIndex(s => s.slide.id === id) finds the slide the
\* id was taken from.
C7_DistinctIds ==
    \A k \in OkResponses :
        LET slides == SlidesOf(k)
        IN \A i, j \in 1..Len(slides) : slides[i].id = slides[j].id => i = j

\* what the claim calls lacking a title (absent, or the empty string, which
\* the route's !lesson.title treats alike) and lacking content.sections
LacksTitle(lesson) == ("title" \notin DOMAIN lesson) \/ Len(lesson.title) = 0
LacksSections(lesson) ==
    ("content" \notin DOMAIN lesson) \/ ("sections" \notin DOMAIN lesson.content)

\* C8: a lesson without a title or without content.sections gets an error
\* response, no slide list, and slide assembly does not run (no identifier
\* is drawn); a lesson with both is not rejected by this check.
C8_InvalidLesson ==
    Has(body, "lesson") =>
        \A k \in 1..Len(responses) :
            IF LacksTitle(body.lesson) \/ LacksSections(body.lesson)
            THEN /\ responses[k].status = 400
                 /\ ~Has(responses[k], "json")
                 /\ rngCalls = 0
            ELSE responses[k].status # 400

\* C8 witness: both a rejected lesson (no content.sections) ...
C8_Witness ==
    /\ Has(body, "lesson") /\ ~LacksTitle(body.lesson) /\ LacksSections(body.lesson)
    /\ Len(responses) > 0

\* ... and an accepted lesson with an empty sections list occur.
C8_WitnessAccepted ==
    /\ Has(body, "lesson") /\ ~LacksTitle(body.lesson) /\ ~LacksSections(body.lesson)
    /\ body.lesson.content.sections = <<>>
    /\ Len(responses) > 0

OptionalFields == {"content", "paragraphs", "words", "questions", "procedure", "targetVocabulary"}

\* none of the optional fields is populated: each is absent or empty
Unpopulated(section) ==
    \A f \in OptionalFields : (f \in DOMAIN section) => Len(section[f]) = 0

WellFormed(section) == {"type", "title"} \subseteq DOMAIN section

RemoveAt(seq, i) == SubSeq(seq, 1, i - 1) \o SubSeq(seq, i + 1, Len(seq))

\* the first objectives-classified section, the one phase 2 consumes, when a
\* later objectives-classified section would take its place were it removed
FirstObjectives(sections, i) ==
    /\ classifySection(sections[i]) = "objectives"
    /\ \A j \in 1..(i - 1) : classifySection(sections[j]) # "objectives"
    /\ \E j \in (i + 1)..Len(sections) : classifySection(sections[j]) = "objectives"

\* C9: when every section has a type and a title, lessonToSlides does not
\* raise whichever optional fields are absent, and a section with no optional
\* field populated contributes no slide: the slides are those of the lesson
\* without that section, and no objectives slide comes from it.
C9_OptionalFields ==
    (engine = "routes" /\ ValidBody
       /\ \A i \in 1..Len(body.lesson.content.sections) :
            WellFormed(body.lesson.content.sections[i])) =>
        \A k \in 1..Len(responses) :
            /\ responses[k].status = 200
            /\ \A i \in 1..Len(body.lesson.content.sections) :
                LET sections == body.lesson.content.sections
                IN Unpopulated(sections[i]) =>
                    IF FirstObjectives(sections, i)
                    THEN PositionsOf(SlidesOf(k), "objectives") = <<>>
                    ELSE WithoutIds(SlidesOf(k)) =
                         WithoutIds(lessonToSlides(
                            [body.lesson EXCEPT !.content.sections = RemoveAt(sections, i)],
                            0).slides)

\* C9 witness: an answered lesson with an unpopulated activity section next
\* to a populated section.
C9_Witness ==
    /\ engine = "routes" /\ ValidBody /\ Len(responses) > 0
    /\ Len(body.lesson.content.sections) = 2
    /\ \A i \in 1..2 : WellFormed(body.lesson.content.sections[i])
    /\ \E i, j \in 1..2 :
        /\ Unpopulated(body.lesson.content.sections[i])
        /\ classifySection(body.lesson.content.sections[i]) = "activity"
        /\ ~Unpopulated(body.lesson.content.sections[j])


----------------------------------------------------------------------------
(* Properties of the script generator *)

ScriptOk == Len(scriptRes) = 1 /\ scriptRes[1].status = 200

RECURSIVE SumDurations(_, _)
SumDurations(lines, n) ==
    IF n = 0 THEN tenths(0)
    ELSE plus(SumDurations(lines, n - 1), lines[n].suggestedDurationSeconds)

\* C1: in the script returned by generateVoiceoverScript the first line starts
\* at 0, every line starts at the sum of the durations of the lines before it
\* and totalDurationSeconds is the sum of all durations.
C1_Timeline ==
    ScriptOk =>
        LET script == scriptRes[1].json.script
        IN /\ \A i \in 1..Len(script.lines) :
                script.lines[i].startTimeSeconds = SumDurations(script.lines, i - 1)
           /\ script.totalDurationSeconds = SumDurations(script.lines, Len(script.lines))

\* C1 witness: a script of two lines for a tone other than the default, the
\* second line starting where the first ends.
C1_Witness ==
    /\ ScriptOk
    /\ Has(scriptReq, "tone")
    /\ Len(scriptRes[1].json.script.lines) = 2
    /\ scriptRes[1].json.script.lines[2].startTimeSeconds.t > 0

\* the text lines of the k-th cue as they stand in the SRT file
CueTextLines(srtLines, k) == split(srtLines[4 * (k - 1) + 3], {"\n"})

\* C10: every cue generateSRT produces has at most 2 text lines and no text
\* line longer than 42 characters.
C10_CueLimits ==
    ScriptOk =>
        LET srtLines == scriptRes[1].json.srtContent
        IN \A k \in 1..(Len(srtLines) \div 4) :
            /\ Len(CueTextLines(srtLines, k)) <= 2
            /\ \A j \in 1..Len(CueTextLines(srtLines, k)) :
                Len(CueTextLines(srtLines, k)[j]) <= 42

IsDigit(c) == \E i \in 1..10 : Digits[i] = c

\* the number a string of decimal digits denotes
RECURSIVE NumberOf(_)
NumberOf(ds) ==
    IF ds = <<>> THEN 0
    ELSE 10 * NumberOf(SubSeq(ds, 1, Len(ds) - 1))
         + (CHOOSE i \in 0..9 : Digits[i + 1] = ds[Len(ds)])

\* HH:MM:SS,mmm with minutes and seconds below 60
IsTimestamp(ts) ==
    /\ Len(ts) = 12
    /\ ts[3] = ":" /\ ts[6] = ":" /\ ts[9] = ","
    /\ \A i \in {1, 2, 4, 5, 7, 8, 10, 11, 12} : IsDigit(ts[i])
    /\ NumberOf(SubSeq(ts, 4, 5)) < 60
    /\ NumberOf(SubSeq(ts, 7, 8)) < 60

MillisOf(ts) ==
    ((NumberOf(SubSeq(ts, 1, 2)) * 60 + NumberOf(SubSeq(ts, 4, 5))) * 60
        + NumberOf(SubSeq(ts, 7, 8))) * 1000 + NumberOf(SubSeq(ts, 10, 12))

\* the timestamp line of a cue is start, " --> ", end, both well formed, the
\* start at the line's start time and the end later by the line's duration
CueTimesAsLine(stamps, line) ==
    /\ Len(stamps) = 29
    /\ SubSeq(stamps, 13, 17) = <<" ","-","-",">"," ">>
    /\ IsTimestamp(SubSeq(stamps, 1, 12))
    /\ IsTimestamp(SubSeq(stamps, 18, 29))
    /\ MillisOf(SubSeq(stamps, 1, 12)) = line.startTimeSeconds.t * 100
    /\ MillisOf(SubSeq(stamps, 18, 29)) - MillisOf(SubSeq(stamps, 1, 12))
            = line.suggestedDurationSeconds.t * 100

\* C11: generateSRT emits one cue per script line, in line order, numbered
\* 1..n; both timestamps of a cue have the form HH:MM:SS,mmm and the end
\* timestamp exceeds the start timestamp by the line's duration, to the
\* millisecond.
C11_CueTimes ==
    ScriptOk =>
        LET script == scriptRes[1].json.script
            srtLines == scriptRes[1].json.srtContent
        IN /\ Len(srtLines) = 4 * Len(script.lines)
           /\ \A k \in 1..Len(script.lines) :
                /\ srtLines[4 * (k - 1) + 1] = toString(k)
                /\ CueTimesAsLine(srtLines[4 * (k - 1) + 2], script.lines[k])

\* the number of words of a text: its maximal runs of non-whitespace
WordCount(text) ==
    Cardinality({i \in 1..Len(text) :
        text[i] \notin Whitespace /\ (i = 1 \/ text[i - 1] \in Whitespace)})

\* ten times the pacing factor of a slide type
Factor10(type) ==
    IF type \in {"title", "answer"} THEN 15
    ELSE IF type \in {"vocabulary", "outro"} THEN 13
    ELSE IF type = "quiz" THEN 20
    ELSE IF type = "hook" THEN 12
    ELSE 10

\* seconds is the double nearest to max(2, words / 2.5 * factor rounded to one
\* decimal place): in tenths, 4 * words * factor10 / 10 rounded to a whole number
IsEstimate(seconds, words, factor10) ==
    /\ seconds = tenths(seconds.t)
    /\ seconds.t >= 20
    /\ seconds.t > 20 => (10 * seconds.t - 4 * words * factor10) \in -5..5
    /\ seconds.t = 20 => 4 * words * factor10 <= 205

Less(a, b) == a.t < b.t \/ (a.t = b.t /\ a.d < b.d)

\* C12: the duration of every script line is max(2, word count / 2.5 x factor
\* of the slide type, rounded to one decimal place); so it is at least 2 and
\* the start times are strictly increasing.
C12_Durations ==
    ScriptOk =>
        LET lines == scriptRes[1].json.script.lines
        IN /\ \A i \in 1..Len(lines) :
                /\ IsEstimate(lines[i].suggestedDurationSeconds,
                              WordCount(lines[i].text), Factor10(lines[i].slideType))
                /\ ~Less(lines[i].suggestedDurationSeconds, tenths(20))
           /\ \A i \in 1..(Len(lines) - 1) :
                Less(lines[i].startTimeSeconds, lines[i + 1].startTimeSeconds)

\* an enhance-script request on a script with lines has been answered
EnhanceAnswered ==
    /\ enhance.phase = "done"
    /\ Has(enhance.req, "script") /\ Has(enhance.req.script, "lines")

\* C13: whichever enhancement calls fail, the request is answered with a
\* script of the same lines in the same order with the same slide references;
\* a failed line keeps its text and duration, every other line has the
\* duration of its new text, and start times and total are the running sums.
C13_PartialFailure ==
    EnhanceAnswered =>
        /\ enhance.res.status = 200
        /\ LET before == enhance.req.script.lines
               script == enhance.res.json.script
               after == script.lines
           IN /\ Len(after) = Len(before)
              /\ \A i \in 1..Len(after) :
                    /\ after[i].slideId = before[i].slideId
                    /\ after[i].slideNumber = before[i].slideNumber
                    /\ after[i].slideType = before[i].slideType
                    /\ enhance.calls[i] = "error" =>
                            /\ after[i].text = before[i].text
                            /\ after[i].suggestedDurationSeconds = before[i].suggestedDurationSeconds
                    /\ enhance.calls[i] # "error" =>
                            IsEstimate(after[i].suggestedDurationSeconds,
                                       Len(splitRuns(after[i].text)), Factor10(after[i].slideType))
                    /\ after[i].startTimeSeconds = SumDurations(after, i - 1)
              /\ script.totalDurationSeconds = SumDurations(after, Len(after))

\* C13 witness: an answered request on the edited script in which the first
\* call failed and the second returned a text.
C13_Witness ==
    /\ EnhanceAnswered
    /\ enhance.req.script = EditedScript
    /\ enhance.calls = <<"error", "text">>
    /\ enhance.res.json.script.lines[2].text # EditedScript.lines[2].text

\* a generate-script request that carries a reel has been answered
ScriptAnswered == Len(scriptRes) = 1 /\ Has(scriptReq, "reel")

\* slide types generateSlideText has a template for
TemplateTypes ==
    {"title", "hook", "objectives", "vocabulary", "grammar", "reading", "example",
     "quiz", "answer", "summary", "outro"}

\* C14: every generate-script request with a reel is answered with a script,
\* whatever payload fields its slides lack, and a slide of a type without a
\* template contributes no line.
C14_NeverFails ==
    ScriptAnswered =>
        /\ scriptRes[1].status = 200
        /\ LET slides == scriptReq.reel.slides
               lines == scriptRes[1].json.script.lines
           IN \A i \in 1..Len(slides) :
                (~Has(slides[i].slide, "type") \/ slides[i].slide.type \notin TemplateTypes)
                    => \A k \in 1..Len(lines) : lines[k].slideNumber # i

\* slide types that carry an image, and those that do not
ImageTypes == {"title", "hook", "vocabulary", "grammar", "reading", "example", "outro"}

TextTypes == {"objectives", "activity", "quiz", "answer", "summary"}

\* C15: every slide of every lessonToSlides output has the requiresImage value
\* of its type: TRUE for the image types, FALSE for the text types.
C15_RequiresImage ==
    \A k \in OkResponses : \A i \in 1..Len(SlidesOf(k)) :
        /\ SlidesOf(k)[i].type \in ImageTypes \cup TextTypes
        /\ SlidesOf(k)[i].requiresImage = (SlidesOf(k)[i].type \in ImageTypes)

\* C15 witness: an output that holds a hook, vocabulary slides and the text
\* slide that summarises them.
C15_Witness ==
    \E k \in OkResponses :
        {"hook", "vocabulary", "summary"} \subseteq {SlidesOf(k)[i].type : i \in 1..Len(SlidesOf(k))}

\* C15 witness of the older build: an output with an activity slide.
C15_WitnessActivity ==
    \E k \in OkResponses : \E i \in 1..Len(SlidesOf(k)) : SlidesOf(k)[i].type = "activity"

\* C16: every lessonToSlides output has exactly one title slide, in first
\* place, exactly one hook slide, in second place, and exactly one outro
\* slide, in last place.
C16_Frame ==
    \A k \in OkResponses :
        /\ PositionsOf(SlidesOf(k), "title") = <<1>>
        /\ PositionsOf(SlidesOf(k), "hook") = <<2>>
        /\ PositionsOf(SlidesOf(k), "outro") = <<Len(SlidesOf(k))>>

\* C16 witness: the output for a lesson with a section whose type and title
\* mention title, hook and outro, followed by a section that brings a summary.
C16_Witness ==
    \E k \in OkResponses :
        /\ Len(body.lesson.content.sections) = 2
        /\ body.lesson.content.sections[1].type = <<"t","i","t","l","e">>
        /\ PositionsOf(SlidesOf(k), "summary") # <<>>
        /\ Len(SlidesOf(k)) > 4

\* the keyword rules in their order
Rules ==
    << [category |-> "objectives", keywords |-> {<<"o","b","j","e","c","t","i","v","e">>, <<"l","e","a","r","n","i","n","g"," ","g","o","a","l">>}],
       [category |-> "vocabulary", keywords |-> {<<"v","o","c","a","b","u","l","a","r","y">>, <<"k","e","y"," ","w","o","r","d","s">>}],
       [category |-> "grammar", keywords |-> {<<"g","r","a","m","m","a","r">>, <<"l","a","n","g","u","a","g","e"," ","f","o","c","u","s">>, <<"s","t","r","u","c","t","u","r","e">>}],
       [category |-> "reading", keywords |-> {<<"r","e","a","d","i","n","g">>, <<"p","a","s","s","a","g","e">>, <<"t","e","x","t">>}],
       [category |-> "example", keywords |-> {<<"e","x","a","m","p","l","e">>, <<"d","i","a","l","o","g","u","e">>, <<"c","o","n","v","e","r","s","a","t","i","o","n">>, <<"s","a","m","p","l","e">>}],
       [category |-> "activity", keywords |-> {<<"a","c","t","i","v","i","t","y">>, <<"p","r","a","c","t","i","c","e">>, <<"e","x","e","r","c","i","s","e">>, <<"t","a","s","k">>}],
       [category |-> "quiz", keywords |-> {<<"q","u","i","z">>, <<"a","s","s","e","s","s","m","e","n","t">>, <<"c","h","e","c","k">>, <<"t","e","s","t">>}],
       [category |-> "summary", keywords |-> {<<"s","u","m","m","a","r","y">>, <<"r","e","v","i","e","w">>, <<"w","r","a","p">>}],
       [category |-> "intro", keywords |-> {<<"i","n","t","r","o","d","u","c","t","i","o","n">>, <<"w","a","r","m">>}] >>

\* the rules one of whose keywords is a substring of the search string
Matching(search) ==
    {r \in 1..Len(Rules) : \E kw \in Rules[r].keywords : includes(search, kw)}

SearchString(section) == toLowerCase(section.type) \o <<" ">> \o toLowerCase(section.title)

\* the category of the first matching rule, content or other when none matches
RuleCategory(section) ==
    LET first(matching) ==
            IF matching # {}
            THEN Rules[CHOOSE r \in matching : \A q \in matching : r <= q].category
            ELSE IF (Has(section, "content") /\ section.content # <<>>) \/ Has(section, "paragraphs")
            THEN "content"
            ELSE "other"
    IN first(Matching(SearchString(section)))

\* the sections of the request that have a type and a title
TypedSections ==
    IF ValidBody
    THEN {body.lesson.content.sections[i] : i \in 1..Len(body.lesson.content.sections)}
            \cap {section \in SectionCatalog : Has(section, "type") /\ Has(section, "title")}
    ELSE {}

\* C17: classifySection gives every section of a lesson the category of the
\* first rule, in the fixed order, with a keyword in the lower-cased type and
\* title, else content when it has body text or a paragraph list, else other.
C17_FirstRule ==
    \A section \in TypedSections : classifySection(section) = RuleCategory(section)

\* C17 witness: a lesson whose only section matches both a reading keyword
\* and a quiz keyword has been turned into slides with a reading slide and no
\* quiz slide.
C17_Witness ==
    \E k \in OkResponses :
        /\ Len(body.lesson.content.sections) = 1
        /\ \E section \in TypedSections : {4, 7} \subseteq Matching(SearchString(section))
        /\ PositionsOf(SlidesOf(k), "reading") # <<>>
        /\ PositionsOf(SlidesOf(k), "quiz") = <<>>

\* a batch run has started
BatchStarted == batch.phase \in {"running", "finished"}

\* the batch in order: the ids of the slides with requiresImage, or the
\* terms of the smart prompts
BatchOrder ==
    IF batch.page = "reel"
    THEN LET wanted == SelectSeq(batch.first.slides, LAMBDA g : g.slide.requiresImage)
         IN [i \in 1..Len(wanted) |-> wanted[i].slide.id]
    ELSE [i \in 1..Len(batch.smartPrompts) |-> batch.smartPrompts[i].term]

\* the outcomes that are errors
Failures == {"prompt failed", "image failed"}

\* the image item k brought is where the page shows it
ImageKept(k) ==
    IF batch.page = "reel"
    THEN \E i \in 1..Len(batch.reel.slides) :
            /\ batch.reel.slides[i].slide.id = BatchOrder[k]
            /\ Has(batch.reel.slides[i], "imageData")
            /\ batch.reel.slides[i].imageData = batch.outcomes[k].imageData
    ELSE \E i \in 1..Len(batch.generatedImages) :
            /\ i = Cardinality({j \in 1..k : batch.outcomes[j].kind = "image"})
            /\ batch.generatedImages[i].term = BatchOrder[k]
            /\ batch.generatedImages[i].imageData = batch.outcomes[k].imageData

\* C18: in a batch run the items are attempted once each, in order, whatever
\* the earlier outcomes were; an image that arrived stays attached; and a run
\* that has ended has attempted every item and cleared the generating flag.
C18_BatchRuns ==
    /\ batch.phase = "returned" => ~batch.isGenerating
    /\ BatchStarted =>
        /\ batch.attempted = SubSeq(BatchOrder, 1, Len(batch.attempted))
        /\ batch.phase = "running" => Len(batch.attempted) = Len(batch.outcomes) + 1
        /\ batch.phase = "finished" =>
                /\ batch.attempted = BatchOrder
                /\ Len(batch.outcomes) = Len(BatchOrder)
                /\ ~batch.isGenerating
        /\ \A k \in 1..Len(batch.outcomes) :
                batch.outcomes[k].kind = "image" => ImageKept(k)

\* C18 witness: a finished run over a reel in which an item failed between
\* two items that brought an image.
C18_Witness ==
    /\ batch.phase = "finished" /\ batch.page = "reel"
    /\ \E i, j, k \in 1..Len(batch.outcomes) :
        /\ i < j /\ j < k
        /\ batch.outcomes[i].kind = "image"
        /\ batch.outcomes[j].kind \in Failures
        /\ batch.outcomes[k].kind = "image"

\* C18 witness on the vocabulary page: a failure followed by an image.
C18_WitnessVocab ==
    /\ batch.phase = "finished" /\ batch.page = "vocab"
    /\ \E j, k \in 1..Len(batch.outcomes) :
        /\ j < k
        /\ batch.outcomes[j].kind \in Failures
        /\ batch.outcomes[k].kind = "image"

\* C19: when a run over a reel ends, the number of images the toast reports
\* is the number of slides that got an image, the number of failures it
\* reports is the number of slides whose generation raised an error, and the
\* two add up to the number of slides with requiresImage.
C19_Counts ==
    (batch.phase = "finished" /\ batch.page = "reel") =>
        LET reported == IF Has(batch.toast, "failed") THEN batch.toast.failed ELSE 0
            got == {k \in 1..Len(batch.outcomes) : batch.outcomes[k].kind = "image"}
            raised == {k \in 1..Len(batch.outcomes) : batch.outcomes[k].kind \in Failures}
        IN /\ batch.toast.created = Cardinality(got)
           /\ reported = Cardinality(raised)
           /\ batch.toast.created + reported = Len(BatchOrder)

\* a generate-slide-image request past its prompt check
ImageUnderWay == imageReq.phase \in {"waiting", "creating", "polling", "fetching", "done"}

\* C20: a generate-slide-image request starts at most 5 attempts, each one
\* after the first only when the one before ended in a rate limit; another
\* error, a failed prediction or an unexpected output ends it with a failure
\* response, and so do 5 rate-limited attempts; a request that has ended has
\* sent exactly one response, one that has not has sent none.
C20_Retries ==
    ImageUnderWay =>
        /\ imageReq.started <= 5
        /\ \A k \in 1..(imageReq.started - 1) : imageReq.log[k] = "429"
        /\ imageReq.phase # "done" => (imageReq.sent = <<>> /\ Len(imageReq.log) = imageReq.started - 1)
        /\ imageReq.phase = "done" =>
            /\ Len(imageReq.sent) = 1
            /\ Len(imageReq.log) = imageReq.started
            /\ imageReq.started > 0 =>
                LET last == imageReq.log[imageReq.started]
                IN /\ last \in {"error", "failed", "unexpected"} => imageReq.sent[1].status = 500
                   /\ last = "429" => (imageReq.started = 5 /\ imageReq.sent[1].status = 500)
                   /\ last = "image" => imageReq.sent[1].status = 200

\* C20 witness: a request has ended after five rate-limited attempts.
C20_Witness ==
    /\ imageReq.phase = "done"
    /\ imageReq.log = <<"429", "429", "429", "429", "429">>
    /\ imageReq.sent[1].error = "Failed to generate image after retries"

\* C20 witness of a retry that succeeds: two rate limits, then the image.
C20_WitnessImage ==
    /\ imageReq.phase = "done"
    /\ imageReq.log = <<"429", "429", "image">>

\* the wait the backoff rule gives before retry k: 10000 ms before the first,
\* 1.5 times the previous one after that, never more than 30000 ms
BackoffWait(k) == Min((10000 * 3^(k - 1)) \div 2^(k - 1), 30000)

\* C21: no wait precedes the first attempt, the wait before the first retry
\* is 10000 ms, each later wait is 1.5 times the one before, and no wait
\* exceeds 30000 ms.
C21_Backoff ==
    imageReq.phase = "waiting" =>
        /\ imageReq.attempt >= 1
        /\ imageReq.delay <= 30000
        /\ imageReq.delay = BackoffWait(imageReq.attempt)

\* the index of the first section classified objectives, 0 when there is none
FirstObjectivesIdx(sections) ==
    LET found == {i \in 1..Len(sections) : classifySection(sections[i]) = "objectives"}
    IN IF found = {} THEN 0 ELSE CHOOSE i \in found : \A j \in found : i <= j

\* the trimmed lines of a body, cut at every newline, bullet and hyphen
LinesOf(content) ==
    LET cuts == SelectSeq([i \in 1..(Len(content) + 2) |-> i - 1],
                          LAMBDA i : i = 0 \/ i = Len(content) + 1
                                     \/ content[i] \in {"\n", <<"U+2022">>[1], "-"})
    IN [k \in 1..(Len(cuts) - 1) |-> trim(SubSeq(content, cuts[k] + 1, cuts[k + 1] - 1))]

\* the first four lines longer than 10 characters
ListedObjectives(section) ==
    IF Has(section, "content")
    THEN LET long == SelectSeq(LinesOf(section.content), LAMBDA o : Len(o) > 10)
         IN SubSeq(long, 1, Min(4, Len(long)))
    ELSE <<>>

\* a slide without its id and its sequence number
Core(slide) == [f \in (DOMAIN slide) \ {"id", "sequence"} |-> slide[f]]

CoresOf(slides) == [i \in 1..Len(slides) |-> Core(slides[i])]

\* an objectives section with no body: consumed, and the source of no slide
BareObjectives == Sec(<<"o","b","j","e","c","t","i","v","e","s">>, <<"G","o","a","l","s">>)

\* C22: the first objectives section is consumed: but for the objectives
\* slide the output is that of the lesson with a bodiless objectives section
\* in its place; there is at most one objectives slide, it comes directly
\* after the hook, and it lists the first 1 to 4 trimmed lines of the body
\* that are longer than 10 characters.
C22_Objectives ==
    (engine = "routes" /\ ValidBody) =>
        \A k \in OkResponses :
            LET sections == body.lesson.content.sections
                idx == FirstObjectivesIdx(sections)
                at == PositionsOf(SlidesOf(k), "objectives")
            IN /\ Len(at) <= 1
               /\ idx = 0 => at = <<>>
               /\ idx # 0 =>
                    /\ (at # <<>>) = (ListedObjectives(sections[idx]) # <<>>)
                    /\ at # <<>> =>
                        /\ at = <<3>>
                        /\ SlidesOf(k)[2].type = "hook"
                        /\ SlidesOf(k)[3].objectives = ListedObjectives(sections[idx])
                        /\ Len(SlidesOf(k)[3].objectives) \in 1..4
                    /\ CoresOf(SelectSeq(SlidesOf(k), LAMBDA sl : sl.type # "objectives"))
                         = CoresOf(lessonToSlides(
                              [body.lesson EXCEPT !.content.sections[idx] = BareObjectives],
                              0).slides)

\* C22 witness: an answered lesson whose first section is an objectives
\* section with more than four qualifying lines and a body long enough for a
\* reading slide, followed by a second objectives section.
C22_Witness ==
    /\ engine = "routes" /\ ValidBody /\ OkResponses # {}
    /\ Len(body.lesson.content.sections) = 2
    /\ FirstObjectivesIdx(body.lesson.content.sections) = 1
    /\ Has(body.lesson.content.sections[1], "content")
    /\ Len(SelectSeq(LinesOf(body.lesson.content.sections[1].content), LAMBDA o : Len(o) > 10)) > 4
    /\ classifySection(body.lesson.content.sections[2]) = "objectives"

\* C23: in every lessonToSlides output the slide at position i (from 0) has
\* sequence i: the numbers start at 0 and rise by one, whatever was skipped.
C23_Sequence ==
    \A k \in OkResponses :
        \A i \in 1..Len(SlidesOf(k)) : SlidesOf(k)[i].sequence = i - 1

\* C23 witness: an output with slides from the section pass and a summary,
\* for a lesson whose objectives section yields no slide.
C23_Witness ==
    /\ ValidBody
    /\ \E k \in OkResponses :
        /\ Len(body.lesson.content.sections) = 2
        /\ FirstObjectivesIdx(body.lesson.content.sections) # 0
        /\ PositionsOf(SlidesOf(k), "objectives") = <<>>
        /\ PositionsOf(SlidesOf(k), "vocabulary") # <<>>
        /\ PositionsOf(SlidesOf(k), "summary") # <<>>

\* the answer a question carries, or the placeholder
AnswerTo(q) ==
    IF q.t = "object" /\ Has(q.o, "answer") /\ q.o.answer # <<>>
    THEN q.o.answer ELSE <<"S","e","e"," ","t","h","e"," ","c","o","r","r","e","c","t"," ","a","n","s","w","e","r","!">>

\* C24: every quiz slide is directly followed by an answer slide with its
\* questionNumber, every answer slide directly follows a quiz slide, and the
\* answer shown is the structured question's non-empty answer, else the
\* placeholder.
C24_Answers ==
    (engine = "routes" /\ ValidBody) =>
        \A k \in OkResponses :
            LET slides == SlidesOf(k)
                quiz == PositionsOf(slides, "quiz")
                asked == QuestionsFrom(body.lesson.content.sections, 1)
            IN /\ Len(quiz) = Len(PositionsOf(slides, "answer"))
               /\ Len(quiz) = Len(asked)
               /\ \A i \in 1..Len(slides) :
                    slides[i].type = "answer" => (i > 1 /\ slides[i - 1].type = "quiz")
               /\ \A n \in 1..Len(quiz) :
                    /\ quiz[n] < Len(slides)
                    /\ slides[quiz[n] + 1].type = "answer"
                    /\ slides[quiz[n] + 1].questionNumber = slides[quiz[n]].questionNumber
                    /\ slides[quiz[n] + 1].correctAnswer = AnswerTo(asked[n].q)

\* C24 witness: an output with an answer taken from a structured question
\* and a placeholder answer for a plain-string question.
C24_Witness ==
    /\ engine = "routes" /\ ValidBody
    /\ \E k \in OkResponses :
        \E i, j \in 1..Len(SlidesOf(k)) :
            /\ SlidesOf(k)[i].type = "answer" /\ SlidesOf(k)[i].correctAnswer = <<"y","e","s">>
            /\ SlidesOf(k)[j].type = "answer"
            /\ SlidesOf(k)[j].correctAnswer = <<"S","e","e"," ","t","h","e"," ","c","o","r","r","e","c","t"," ","a","n","s","w","e","r","!">>
            /\ SlidesOf(k)[j - 1].question = <<"W","h","y","?">>

\* twice the sequence number of a slide of the page's reel
TwiceSequence(slide) ==
    IF Has(slide, "part") /\ slide.part = 2 THEN slide.sequence.halves ELSE 2 * slide.sequence

\* the calls of handleFileUpload that are past the reading-rewrite step
PastRewrite == {u \in 1..Len(uploads) : Has(uploads[u], "rewrite")}

\* the reading slide at position i of the assembled reel was replaced by two parts
SplitAt(before, after, i) ==
    LET s == before.slides[i].slide.sequence
    IN /\ Len(after.slides) = Len(before.slides) + 1
       /\ \A part \in {1, 2} :
            /\ after.slides[i + part - 1].slide.type = "reading"
            /\ after.slides[i + part - 1].slide.part = part
            /\ after.slides[i + part - 1].slide.totalParts = 2
       /\ after.slides[i].slide.sequence = s
       /\ after.slides[i + 1].slide.sequence = Halves(2 * s + 1)
       /\ \A j \in 1..Len(before.slides) :
            /\ j < i => after.slides[j] = before.slides[j]
            /\ j > i => after.slides[j + 1] = before.slides[j]
       /\ \A j \in 1..(Len(after.slides) - 1) :
            TwiceSequence(after.slides[j].slide) < TwiceSequence(after.slides[j + 1].slide)
       /\ after.totalSlides = Len(after.slides)

\* C25: after the reading-rewrite step of handleFileUpload, when the rewrite
\* arrived and the reel has a reading slide, its first reading slide is
\* replaced in place by part 1 of 2 and part 2 of 2 with sequence s and
\* s + 0.5, every other slide is kept in order, the sequence numbers keep
\* increasing and totalSlides is the length of the list; when the rewrite
\* failed the reel is the assembler's output and the call goes on to the
\* context request, which sets the preview step when it is answered.
C25_ReadingSplit ==
    \A u \in PastRewrite :
        LET call == uploads[u]
            i == readingIndexOf(call.assembled.slides)
        IN /\ (call.rewrite = "done" /\ i # 0) => SplitAt(call.assembled, call.reelData, i)
           /\ call.rewrite = "failed" =>
                /\ call.reelData = call.assembled
                /\ call.pc = "context" \/ call.outcome \in {"loaded", "context"}
                /\ (call.pc = "done" /\ call.outcome = "loaded") => page.step = "preview"

C25_Witness ==
    \E u \in PastRewrite :
        /\ uploads[u].rewrite = "done"
        /\ readingIndexOf(uploads[u].assembled.slides) # 0
        /\ page.reel = uploads[u].reelData
        /\ \E j \in 1..Len(page.reel.slides) :
            /\ page.reel.slides[j].slide.type = "reading"
            /\ ~Has(page.reel.slides[j].slide, "part")

C25_WitnessFailed ==
    \E u \in PastRewrite :
        /\ uploads[u].rewrite = "failed"
        /\ uploads[u].pc = "done" /\ uploads[u].outcome = "loaded"
        /\ readingIndexOf(uploads[u].assembled.slides) # 0

\* two calls of handleFileUpload overlapped and both have set the preview
\* step: the step leaves "upload" with the first, so the second began before
BothLoaded ==
    /\ Len(uploads) = 2
    /\ \A u \in 1..2 : uploads[u].pc = "done" /\ uploads[u].outcome = "loaded"

\* what the page holds was put there by calls for the file `file`
HeldFrom(file) ==
    LET calls == {u \in 1..Len(uploads) : uploads[u].file = file}
    IN /\ page.lesson # Null => page.lesson = file.text.data
       /\ page.reel # Null =>
            \E u \in calls : Has(uploads[u], "reelData") /\ page.reel = uploads[u].reelData
       /\ page.lessonContext # <<>> => page.lessonContext = contextOf(file.text.data)

\* C28: once two overlapping calls of handleFileUpload have both finished,
\* the lesson, the reel and the lessonContext of the page derive from one
\* uploaded file, whatever the interleaving of their asynchronous steps was.
C28_OneFile ==
    BothLoaded => \E file \in {lunchFile, travelFile} : HeldFrom(file)

\* a finished run over a reel in which no external call failed: no request
\* was rejected, and every completion the prompt route asked for had content
NoCallFailed ==
    /\ batch.phase = "finished" /\ batch.page = "reel"
    /\ \A k \in 1..Len(batch.outcomes) :
        /\ batch.outcomes[k].kind \notin Failures
        /\ batch.items[k].slide.type \in PromptTypes => batch.outcomes[k].kind = "image"

\* C26: when a batch run over a reel ends and no external call failed in it,
\* every slide with requiresImage has imageData: the prompt route builds a
\* prompt for every slide type the assembler marks requiresImage.
C26_EveryImage ==
    NoCallFailed =>
        \A i \in 1..Len(batch.reel.slides) :
            batch.reel.slides[i].slide.requiresImage => Has(batch.reel.slides[i], "imageData")

\* C27: after enhanceScriptWithAI has returned, whatever the outcomes of the
\* per-line calls were, the script it was given is as it was before: every
\* line has the text, suggestedDurationSeconds and startTimeSeconds it had,
\* and totalDurationSeconds is unchanged.
C27_InputUnchanged ==
    (enhance.phase = "done" /\ Has(enhance, "input")) =>
        /\ enhance.input.totalDurationSeconds = enhance.req.script.totalDurationSeconds
        /\ \A k \in 1..Len(enhance.req.script.lines) :
            /\ enhance.input.lines[k].text = enhance.req.script.lines[k].text
            /\ enhance.input.lines[k].suggestedDurationSeconds
                    = enhance.req.script.lines[k].suggestedDurationSeconds
            /\ enhance.input.lines[k].startTimeSeconds
                    = enhance.req.script.lines[k].startTimeSeconds

\* C30: when every external call returns, a generate-slide-image request
\* eventually sends a response: the polling loop of an attempt ends for every
\* final status of the prediction, and the retry loop ends.
C30_Responds == <>(imageReq.phase = "done" /\ Len(imageReq.sent) = 1)

\* C29: on the reel page, whenever the step is preview, generating or
\* results the reel is not null, and currentSlideIndex is the index of a
\* slide of the reel, so the previewed slide exists.
C29_SlideExists ==
    /\ page.step \in {"preview", "generating", "results"} => page.reel # Null
    /\ page.reel # Null =>
        (0 <= page.currentSlideIndex /\ page.currentSlideIndex < Len(page.reel.slides))

====
